---- MODULE Spec2Model ----
(***************************************************************************)
(* A model of the matroska metadata reader: the EBML primitive decoder     *)
(* (src/src/ebml.rs), the element tree parser and the seek-directed        *)
(* navigator (src/src/lib.rs).                                             *)
(*                                                                         *)
(* A byte source is a sequence of bytes 0..255 and a stream position, the  *)
(* number of bytes already consumed.  A u64 of the program is a sequence   *)
(* of 8 base-256 digits, most significant first, so that sizes and offsets *)
(* keep their 64-bit width; a u32 element ID is an integer (an ID is below *)
(* 2^29).  Every fallible function returns a record with field ok; a       *)
(* failure carries the MatroskaError kind in err, and panic tells an       *)
(* unwinding panic (a failed assert!) from a returned Err value.           *)
(***************************************************************************)
EXTENDS Integers, Sequences, FiniteSets, TLC

VARIABLES
  file,           \* the bytes of the source the current call reads
  call,           \* the entry point being run and its arguments
  pc,             \* the position of the current call in its code
  outcome,        \* what the current call returned (Pending while it runs)
  layout,         \* the element structure the source was written from
  cursor,         \* the stream position of the source, a u64
  id_0,           \* Matroska::open: the ID of the current top-level element
  size_0,         \* Matroska::open: the size left of the current top-level element
  segment_start,  \* Matroska::open: the stream position of the Segment body
  matroska,       \* Matroska::open: the result under construction
  hdr,            \* Matroska::open: (id_1, size_1, len) of the current child
  seektable,      \* Seektable::parse: the table under construction
  table_size,     \* Seektable::parse: its size variable
  log,            \* history: which elements were read, and where
  prev            \* the value of the preceding call in a comparison of two

navvars ==
  <<layout, cursor, id_0, size_0, segment_start, matroska, hdr, seektable,
    table_size, log, prev>>

vars == <<file, call, pc, outcome, navvars>>

-----------------------------------------------------------------------------
(* Results.                                                                *)

\* `let x = value;` ahead of a body: the value is computed once.
With(x, Body(_)) == CHOOSE y \in {Body(v) : v \in {x}} : TRUE

\* No result yet: the call is running.
Pending == [pending |-> TRUE]

Err(e) == [ok |-> FALSE, panic |-> FALSE, err |-> e]

Panic(what) == [ok |-> FALSE, panic |-> TRUE, err |-> what]

-----------------------------------------------------------------------------
(* 64-bit unsigned integers as 8 big-endian base-256 digits.               *)

U64Digits == 1..8

U64Zero == [i \in U64Digits |-> 0]

\* The u64 of a natural number below 2^31.
U64(n) ==
  [i \in U64Digits |->
     CASE i = 8 -> n % 256
       [] i = 7 -> (n \div 256) % 256
       [] i = 6 -> (n \div 65536) % 256
       [] i = 5 -> (n \div 16777216) % 256
       [] OTHER -> 0]

U64IsSmall(w) == \A i \in 1..5 : w[i] = 0

\* The value of a u64 below 2^24 as an integer.
U64Nat(w) == w[6] * 65536 + w[7] * 256 + w[8]

U64Lt(a, b) ==
  \E i \in U64Digits : a[i] < b[i] /\ \A j \in 1..(i - 1) : a[j] = b[j]

U64Le(a, b) == a = b \/ U64Lt(a, b)

\* a + b with the carry out of bit 63.
U64Add(a, b) ==
  LET c[i \in 1..9] ==
        IF i = 9 THEN 0 ELSE (a[i] + b[i] + c[i + 1]) \div 256
  IN  [w |-> [i \in U64Digits |-> (a[i] + b[i] + c[i + 1]) % 256],
       carry |-> c[1]]

\* a - b modulo 2^64 with the borrow out of bit 63.
U64Sub(a, b) ==
  LET c[i \in 1..9] ==
        IF i = 9 THEN 0 ELSE IF a[i] - b[i] - c[i + 1] < 0 THEN 1 ELSE 0
  IN  [w |-> [i \in U64Digits |-> (a[i] - b[i] - c[i + 1]) % 256],
       borrow |-> c[1]]

-----------------------------------------------------------------------------
(* bitstream_io::BitReader in big-endian mode over a byte sequence: the    *)
(* reader's state is the count bp of bits consumed.                        *)

Bit(f, bp) == (f[(bp \div 8) + 1] \div (2 ^ (7 - (bp % 8)))) % 2

RECURSIVE CountZeros(_, _, _)
CountZeros(f, bp, n) ==
  IF bp >= 8 * Len(f) THEN Err("Io")
  ELSE IF Bit(f, bp) = 1 THEN [ok |-> TRUE, val |-> n, bp |-> bp + 1]
  ELSE CountZeros(f, bp + 1, n + 1)

\* The count of 0 bits before the next 1 bit, which is consumed too.
read_unary1(f, bp) == CountZeros(f, bp, 0)

\* The next n bits, first bit first.
read_bits(f, bp, n) ==
  IF bp + n > 8 * Len(f) THEN Err("Io")
  ELSE [ok |-> TRUE, bits |-> [i \in 1..n |-> Bit(f, bp + i - 1)], bp |-> bp + n]

\* read::<u32>(n): the bits as an unsigned integer, first bit most significant.
BitsToU32(bits) ==
  LET acc[i \in 0..Len(bits)] ==
        IF i = 0 THEN 0 ELSE 2 * acc[i - 1] + bits[i]
  IN  acc[Len(bits)]

\* read::<u64>(n): the same, at most 64 bits, as a u64.
BitsToU64(bits) ==
  LET n == Len(bits)
      b64(k) == IF k <= 64 - n THEN 0 ELSE bits[k - (64 - n)]
  IN  [i \in U64Digits |->
         128 * b64(8 * i - 7) + 64 * b64(8 * i - 6) + 32 * b64(8 * i - 5)
         + 16 * b64(8 * i - 4) + 8 * b64(8 * i - 3) + 4 * b64(8 * i - 2)
         + 2 * b64(8 * i - 1) + b64(8 * i)]

-----------------------------------------------------------------------------
(* Element IDs and sizes.                                                  *)

\* read_element_id with the width marker bit dropped from the ID.
read_element_id_unmarked(f, bp) ==
  With(read_unary1(f, bp), LAMBDA u :
    IF ~u.ok THEN Err("Io")
    ELSE IF u.val > 3 THEN Err("InvalidID")
    ELSE With(read_bits(f, u.bp, 7 * (u.val + 1)), LAMBDA r :
           IF ~r.ok THEN Err("Io")
           ELSE [ok |-> TRUE, id |-> BitsToU32(r.bits), len |-> u.val + 1,
                 bp |-> r.bp]))

\* read_element_id reporting a read that failed as an invalid ID.
read_element_id_eof_invalid(f, bp) ==
  With(read_unary1(f, bp), LAMBDA u :
    IF ~u.ok THEN Err("InvalidID")
    ELSE IF u.val > 3 THEN Err("InvalidID")
    ELSE With(read_bits(f, u.bp, 7 * (u.val + 1)), LAMBDA r :
           IF ~r.ok THEN Err("InvalidID")
           ELSE [ok |-> TRUE,
                 id |-> (2 ^ (7 - u.val)) * (2 ^ (8 * u.val)) + BitsToU32(r.bits),
                 len |-> u.val + 1, bp |-> r.bp]))

read_element_id(f, bp) ==
  With(read_unary1(f, bp), LAMBDA u :
    IF ~u.ok THEN Err("Io")
    ELSE IF u.val > 3 THEN Err("InvalidID")
    ELSE With(read_bits(f, u.bp, 7 * (u.val + 1)), LAMBDA r :
           IF ~r.ok THEN Err("Io")
           ELSE [ok |-> TRUE,
                 id |-> (2 ^ (7 - u.val)) * (2 ^ (8 * u.val)) + BitsToU32(r.bits),
                 len |-> u.val + 1, bp |-> r.bp]))

\* read_element_size with the width marker bit kept in the size.
read_element_size_marked(f, bp) ==
  With(read_unary1(f, bp), LAMBDA u :
    IF ~u.ok THEN Err("Io")
    ELSE IF u.val > 7 THEN Err("InvalidSize")
    ELSE With(read_bits(f, u.bp, 7 * (u.val + 1)), LAMBDA r :
           IF ~r.ok THEN Err("Io")
           ELSE [ok |-> TRUE, size |-> BitsToU64(<<1>> \o r.bits),
                 len |-> u.val + 1, bp |-> r.bp]))

read_element_size(f, bp) ==
  With(read_unary1(f, bp), LAMBDA u :
    IF ~u.ok THEN Err("Io")
    ELSE IF u.val > 7 THEN Err("InvalidSize")
    ELSE With(read_bits(f, u.bp, 7 * (u.val + 1)), LAMBDA r :
           IF ~r.ok THEN Err("Io")
           ELSE [ok |-> TRUE, size |-> BitsToU64(r.bits), len |-> u.val + 1,
                 bp |-> r.bp]))

\* The header of the element at stream position pos.
read_element_id_size(f, pos) ==
  With(read_element_id(f, 8 * pos), LAMBDA i :
    IF ~i.ok THEN i
    ELSE With(read_element_size(f, i.bp), LAMBDA s :
           IF ~s.ok THEN s
           ELSE [ok |-> TRUE, id |-> i.id, size |-> s.size,
                 len |-> i.len + s.len, pos |-> s.bp \div 8]))

-----------------------------------------------------------------------------
(* Primitive bodies.                                                       *)

\* read_uint accepting a body of 1..7 bytes only.
read_uint_upto7(f, pos, size) ==
  IF size = U64Zero THEN [ok |-> TRUE, val |-> U64Zero, pos |-> pos]
  ELSE IF U64IsSmall(size) /\ U64Nat(size) \in 1..7
       THEN With(read_bits(f, 8 * pos, 8 * U64Nat(size)), LAMBDA r :
              IF ~r.ok THEN Err("Io")
              ELSE [ok |-> TRUE, val |-> BitsToU64(r.bits), pos |-> r.bp \div 8])
       ELSE Err("InvalidUint")

read_uint(f, pos, size) ==
  IF size = U64Zero THEN [ok |-> TRUE, val |-> U64Zero, pos |-> pos]
  ELSE IF U64IsSmall(size) /\ U64Nat(size) \in 1..8
       THEN With(read_bits(f, 8 * pos, 8 * U64Nat(size)), LAMBDA r :
              IF ~r.ok THEN Err("Io")
              ELSE [ok |-> TRUE, val |-> BitsToU64(r.bits), pos |-> r.bp \div 8])
       ELSE Err("InvalidUint")

read_bin(f, pos, size) ==
  IF U64Lt(U64(Len(f) - pos), size) THEN Err("Io")
  ELSE [ok |-> TRUE, val |-> SubSeq(f, pos + 1, pos + U64Nat(size)),
        pos |-> pos + U64Nat(size)]

\* read_signed(n): the bits as a two's complement number, sign-extended to
\* the 64 bits of an i64 (kept as the 8 digits of its bit pattern).
BitsToI64(bits) ==
  LET n == Len(bits)
      b64(k) == IF k <= 64 - n THEN bits[1] ELSE bits[k - (64 - n)]
  IN  BitsToU64([k \in 1..64 |-> b64(k)])

\* read_int matching on the low byte of the size (size as u8).
read_int_width_as_u8(f, pos, size) ==
  IF size[8] = 0 THEN [ok |-> TRUE, val |-> U64Zero, pos |-> pos]
  ELSE IF size[8] \in 1..8
       THEN With(read_bits(f, 8 * pos, 8 * size[8]), LAMBDA r :
              IF ~r.ok THEN Err("Io")
              ELSE [ok |-> TRUE, val |-> BitsToI64(r.bits), pos |-> r.bp \div 8])
       ELSE Err("InvalidUint")

\* read_int without the sign: the bytes zero-extended.
read_int_unsigned(f, pos, size) ==
  IF size = U64Zero THEN [ok |-> TRUE, val |-> U64Zero, pos |-> pos]
  ELSE IF U64IsSmall(size) /\ U64Nat(size) \in 1..8
       THEN With(read_bits(f, 8 * pos, 8 * U64Nat(size)), LAMBDA r :
              IF ~r.ok THEN Err("Io")
              ELSE [ok |-> TRUE, val |-> BitsToU64(r.bits), pos |-> r.bp \div 8])
       ELSE Err("InvalidUint")

read_int(f, pos, size) ==
  IF size = U64Zero THEN [ok |-> TRUE, val |-> U64Zero, pos |-> pos]
  ELSE IF U64IsSmall(size) /\ U64Nat(size) \in 1..8
       THEN With(read_bits(f, 8 * pos, 8 * U64Nat(size)), LAMBDA r :
              IF ~r.ok THEN Err("Io")
              ELSE [ok |-> TRUE, val |-> BitsToI64(r.bits), pos |-> r.bp \div 8])
       ELSE Err("InvalidUint")

\* The n-bit binary numeral of v, first bit most significant.
NatToBits(v, n) == [i \in 1..n |-> (v \div (2 ^ (n - i))) % 2]

Zeros(n) == [i \in 1..n |-> 0]

\* f64::from(f32) on bit patterns: 1 sign, 8 exponent and 23 fraction bits
\* to 1 sign, 11 exponent and 52 fraction bits of the same value.
F32ToF64(b) ==
  LET s == b[1]
      E == BitsToU32(SubSeq(b, 2, 9))
      m == SubSeq(b, 10, 32)
      lead == CHOOSE k \in 1..23 : m[k] = 1 /\ \A j \in 1..(k - 1) : m[j] = 0
  IN  IF E = 255 THEN <<s>> \o NatToBits(2047, 11) \o m \o Zeros(29)
      ELSE IF E = 0 /\ m = Zeros(23) THEN <<s>> \o Zeros(63)
      ELSE IF E = 0
           THEN <<s>> \o NatToBits(897 - lead, 11)
                \o SubSeq(m, lead + 1, 23) \o Zeros(29 + lead)
           ELSE <<s>> \o NatToBits(E + 896, 11) \o m \o Zeros(29)

\* read_float taking an empty body as 0.0, as read_int and read_uint take
\* an empty body as 0.
read_float_empty_is_zero(f, pos, size) ==
  IF size = U64Zero THEN [ok |-> TRUE, val |-> U64Zero, pos |-> pos]
  ELSE IF size = U64(4)
  THEN With(read_bits(f, 8 * pos, 32), LAMBDA r :
         IF ~r.ok THEN Err("Io")
         ELSE [ok |-> TRUE, val |-> BitsToU64(F32ToF64(r.bits)),
               pos |-> r.bp \div 8])
  ELSE IF size = U64(8)
  THEN With(read_bits(f, 8 * pos, 64), LAMBDA r :
         IF ~r.ok THEN Err("Io")
         ELSE [ok |-> TRUE, val |-> BitsToU64(r.bits), pos |-> r.bp \div 8])
  ELSE Err("InvalidFloat")

\* A float is kept as the bit pattern of its f64.
read_float(f, pos, size) ==
  IF size = U64(4)
  THEN With(read_bits(f, 8 * pos, 32), LAMBDA r :
         IF ~r.ok THEN Err("Io")
         ELSE [ok |-> TRUE, val |-> BitsToU64(F32ToF64(r.bits)),
               pos |-> r.bp \div 8])
  ELSE IF size = U64(8)
  THEN With(read_bits(f, 8 * pos, 64), LAMBDA r :
         IF ~r.ok THEN Err("Io")
         ELSE [ok |-> TRUE, val |-> BitsToU64(r.bits), pos |-> r.bp \div 8])
  ELSE Err("InvalidFloat")

\* String::from_utf8 accepts exactly the well-formed UTF-8 byte sequences.
RECURSIVE Utf8From(_, _)
Utf8From(b, i) ==
  LET n == Len(b)
      cont(k) == k <= n /\ b[k] \in 128..191
  IN  IF i > n THEN TRUE
      ELSE IF b[i] < 128 THEN Utf8From(b, i + 1)
      ELSE IF b[i] \in 194..223 THEN cont(i + 1) /\ Utf8From(b, i + 2)
      ELSE IF b[i] = 224
           THEN i + 1 <= n /\ b[i + 1] \in 160..191 /\ cont(i + 2)
                /\ Utf8From(b, i + 3)
      ELSE IF b[i] \in (225..236) \cup {238, 239}
           THEN cont(i + 1) /\ cont(i + 2) /\ Utf8From(b, i + 3)
      ELSE IF b[i] = 237
           THEN i + 1 <= n /\ b[i + 1] \in 128..159 /\ cont(i + 2)
                /\ Utf8From(b, i + 3)
      ELSE IF b[i] = 240
           THEN i + 1 <= n /\ b[i + 1] \in 144..191 /\ cont(i + 2)
                /\ cont(i + 3) /\ Utf8From(b, i + 4)
      ELSE IF b[i] \in 241..243
           THEN cont(i + 1) /\ cont(i + 2) /\ cont(i + 3) /\ Utf8From(b, i + 4)
      ELSE IF b[i] = 244
           THEN i + 1 <= n /\ b[i + 1] \in 128..143 /\ cont(i + 2)
                /\ cont(i + 3) /\ Utf8From(b, i + 4)
      ELSE FALSE

from_utf8(bytes) == Utf8From(bytes, 1)

read_string(f, pos, size) ==
  With(read_bin(f, pos, size), LAMBDA r :
    IF ~r.ok THEN r ELSE IF from_utf8(r.val) THEN r ELSE Err("UTF8"))

read_utf8(f, pos, size) ==
  With(read_bin(f, pos, size), LAMBDA r :
    IF ~r.ok THEN r ELSE IF from_utf8(r.val) THEN r ELSE Err("UTF8"))

\* Utc.ymd(2001, 1, 1).and_hms(0, 0, 0) + Duration::nanoseconds(d): a date is
\* kept as the instant it is counted from and its signed count of
\* nanoseconds (an i64 bit pattern); every i64 count is within the range of
\* DateTime, so the addition is total.
DateTimeFrom2001(d) ==
  [ymd |-> <<2001, 1, 1>>, hms |-> <<0, 0, 0>>, nanoseconds |-> d]

\* read_date that takes a body of any width read_int takes.
read_date_any_width(f, pos, size) ==
  With(read_int(f, pos, size), LAMBDA r :
    IF ~r.ok THEN r ELSE [r EXCEPT !.val = DateTimeFrom2001(r.val)])

read_date(f, pos, size) ==
  IF size = U64(8)
  THEN With(read_int(f, pos, size), LAMBDA r :
         IF ~r.ok THEN r ELSE [r EXCEPT !.val = DateTimeFrom2001(r.val)])
  ELSE Err("InvalidDate")

-----------------------------------------------------------------------------
(* The element classifier: the ID sets of ebml.rs.                         *)

IDS_MASTER ==
  {
    \H80, \H8E, \H8F, \HA0, \HA6, \HAE, \HB6, \HB7, \HBB, \HC8, \HDB, \HE0,
    \HE1, \HE2, \HE3, \HE4, \HE8, \HE9, \H45B9, \H4DBB, \H5034, \H5035,
    \H55B0, \H55D0, \H5854, \H61A7, \H6240, \H63C0, \H6624, \H67C8, \H6911,
    \H6924, \H6944, \H6D80, \H7373, \H75A1, \H7E5B, \H7E7B, \H1043A770,
    \H114D9B74, \H1254C367, \H1549A966, \H1654AE6B, \H18538067, \H1941A469,
    \H1A45DFA3, \H1B538667, \H1C53BB6B, \H1F43B675
  }

\* The set of signed integers with the ID of DateUTC put into it as well.
IDS_INT_and_date == {\HFB, \HFD, \H537F, \H75A2, \H4461}

IDS_INT ==
  {
    \HFB, \HFD, \H537F, \H75A2
  }

IDS_UINT ==
  {
    \H83, \H88, \H89, \H91, \H92, \H96, \H97, \H98, \H9A, \H9B, \H9C, \H9D,
    \H9F, \HA7, \HAA, \HAB, \HB0, \HB2, \HB3, \HB9, \HBA, \HC0, \HC6, \HC7,
    \HC9, \HCA, \HCB, \HCC, \HCD, \HCE, \HCF, \HD7, \HE5, \HE6, \HE7, \HEA,
    \HEB, \HED, \HEE, \HF0, \HF1, \HF7, \HFA, \H4254, \H4285, \H4286,
    \H4287, \H42F2, \H42F3, \H42F7, \H4484, \H4598, \H45BC, \H45BD, \H45DB,
    \H45DD, \H4661, \H4662, \H46AE, \H47E1, \H47E5, \H47E6, \H5031, \H5032,
    \H5033, \H535F, \H5378, \H53AC, \H53B8, \H53B9, \H53C0, \H54AA, \H54B0,
    \H54B2, \H54B3, \H54BA, \H54BB, \H54CC, \H54DD, \H55AA, \H55B1, \H55B2,
    \H55B3, \H55B4, \H55B5, \H55B6, \H55B7, \H55B8, \H55B9, \H55BA, \H55BB,
    \H55BC, \H55BD, \H55EE, \H56AA, \H56BB, \H58D7, \H6264, \H63C3, \H63C4,
    \H63C5, \H63C6, \H63C9, \H66BF, \H66FC, \H68CA, \H6922, \H6955, \H69BF,
    \H69FC, \H6DE7, \H6DF8, \H6EBC, \H6FAB, \H73C4, \H73C5, \H7446, \H7E8A,
    \H7E9A, \H234E7A, \H23E383, \H2AD7B1
  }

IDS_STRING ==
  {
    \H86, \H4282, \H437C, \H437D, \H437E, \H447A, \H447B, \H4660, \H63CA,
    \H22B59C, \H22B59D, \H26B240, \H3B4040
  }

IDS_UTF8 ==
  {
    \H85, \H4487, \H45A3, \H466E, \H467E, \H4D80, \H536E, \H5654, \H5741,
    \H7384, \H7BA9, \H258688, \H3A9697, \H3C83AB, \H3E83BB
  }

IDS_BINARY ==
  {
    \HA1, \HA2, \HA3, \HA4, \HA5, \HAF, \HBF, \HC1, \HC4, \HEC, \H4255,
    \H4444, \H4485, \H450D, \H465C, \H4675, \H47E2, \H47E3, \H47E4, \H53AB,
    \H63A2, \H6532, \H66A5, \H6933, \H69A5, \H6E67, \H73A4, \H7D7B, \H7EA5,
    \H7EB5, \H2EB524, \H3CB923, \H3EB923
  }

IDS_FLOAT ==
  {
    \HB5, \H4489, \H55D1, \H55D2, \H55D3, \H55D4, \H55D5, \H55D6, \H55D7,
    \H55D8, \H55D9, \H55DA, \H78B5, \H23314F, \H2383E3, \H2FB523
  }

-----------------------------------------------------------------------------
(* The element tree parser.  An element is [id, size, val] with size the   *)
(* total size, header included, and val = [kind, v] the typed value.       *)

RECURSIVE parse(_, _), parse_body(_, _, _, _), parse_master_from(_, _, _, _)

\* .map(ElementType::kind) on the result of a body reader.
Typed(kind, r) ==
  IF r.ok THEN [ok |-> TRUE, val |-> [kind |-> kind, v |-> r.val], pos |-> r.pos]
  ELSE r

\* parse giving an element the size of its body alone.
parse_sized_by_body(f, pos) ==
  With(read_element_id_size(f, pos), LAMBDA h :
    IF ~h.ok THEN h
    ELSE With(parse_body(f, h.pos, h.id, h.size), LAMBDA b :
           IF ~b.ok THEN b
           ELSE [ok |-> TRUE,
                 val |-> [id |-> h.id, size |-> h.size, val |-> b.val],
                 pos |-> b.pos]))

parse(f, pos) ==
  With(read_element_id_size(f, pos), LAMBDA h :
    IF ~h.ok THEN h
    ELSE With(parse_body(f, h.pos, h.id, h.size), LAMBDA b :
           IF ~b.ok THEN b
           ELSE [ok |-> TRUE,
                 val |-> [id |-> h.id, size |-> U64Add(U64(h.len), h.size).w,
                          val |-> b.val],
                 pos |-> b.pos]))

\* The loop of parse_master with `size` left and `elements` collected.
parse_master_from(f, pos, size, elements) ==
  IF size = U64Zero THEN [ok |-> TRUE, val |-> elements, pos |-> pos]
  ELSE With(parse(f, pos), LAMBDA e :
         IF ~e.ok THEN e
         ELSE IF U64Lt(size, e.val.size) THEN Panic("assert!(e.size <= size)")
         ELSE parse_master_from(f, e.pos, U64Sub(size, e.val.size).w,
                                Append(elements, e.val)))

parse_master(f, pos, size) == parse_master_from(f, pos, size, <<>>)

\* parse_body that rejects an ID it has no reader for.
parse_body_strict(f, pos, id, size) ==
  IF id \in IDS_MASTER THEN Typed("Master", parse_master(f, pos, size))
  ELSE IF id \in IDS_INT THEN Typed("Int", read_int(f, pos, size))
  ELSE IF id \in IDS_UINT THEN Typed("UInt", read_uint(f, pos, size))
  ELSE IF id \in IDS_STRING THEN Typed("String", read_string(f, pos, size))
  ELSE IF id \in IDS_UTF8 THEN Typed("UTF8", read_utf8(f, pos, size))
  ELSE IF id \in IDS_BINARY THEN Typed("Binary", read_bin(f, pos, size))
  ELSE IF id \in IDS_FLOAT THEN Typed("Float", read_float(f, pos, size))
  ELSE IF id = \H4461 THEN Typed("Date", read_date(f, pos, size))
  ELSE Err("InvalidID")

parse_body(f, pos, id, size) ==
  IF id \in IDS_MASTER THEN Typed("Master", parse_master(f, pos, size))
  ELSE IF id \in IDS_INT THEN Typed("Int", read_int(f, pos, size))
  ELSE IF id \in IDS_UINT THEN Typed("UInt", read_uint(f, pos, size))
  ELSE IF id \in IDS_STRING THEN Typed("String", read_string(f, pos, size))
  ELSE IF id \in IDS_UTF8 THEN Typed("UTF8", read_utf8(f, pos, size))
  ELSE IF id \in IDS_BINARY THEN Typed("Binary", read_bin(f, pos, size))
  ELSE IF id \in IDS_FLOAT THEN Typed("Float", read_float(f, pos, size))
  ELSE IF id = \H4461 THEN Typed("Date", read_date(f, pos, size))
  ELSE Typed("Binary", read_bin(f, pos, size))

-----------------------------------------------------------------------------
(* Element IDs (the ids module).                                           *)

ids ==
  [SEGMENT |-> \H18538067, SEEKHEAD |-> \H114D9B74, SEEK |-> \H4DBB,
   SEEKID |-> \H53AB, SEEKPOSITION |-> \H53AC, EBML |-> \H1A45DFA3,
   VOID |-> \HEC,
   INFO |-> \H1549A966, SEGMENTUID |-> \H73A4, PREVUID |-> \H3CB923,
   NEXTUID |-> \H3EB923, SEGMENTFAMILY |-> \H4444, TITLE |-> \H7BA9,
   TIMECODESCALE |-> \H2AD7B1, DURATION |-> \H4489, DATEUTC |-> \H4461,
   MUXINGAPP |-> \H4D80, WRITINGAPP |-> \H5741,
   TRACKS |-> \H1654AE6B, TRACKENTRY |-> \HAE, TRACKNUMBER |-> \HD7,
   TRACKUID |-> \H73C5, TRACKTYPE |-> \H83, FLAGENABLED |-> \HB9,
   FLAGDEFAULT |-> \H88, FLAGFORCED |-> \H55AA,
   FLAGHEARINGIMPAIRED |-> \H55AB, FLAGVISUALIMPAIRED |-> \H55AC,
   FLAGTEXTDESCRIPTIONS |-> \H55AD, FLAGORIGINAL |-> \H55AE,
   FLAGCOMMENTARY |-> \H55AF, FLAGLACING |-> \H9C,
   DEFAULTDURATION |-> \H23E383, NAME |-> \H536E, LANGUAGE |-> \H22B59C,
   LANGUAGE_IETF |-> \H22B59D, CODEC_ID |-> \H86, CODEC_PRIVATE |-> \H63A2,
   CODEC_NAME |-> \H258688, VIDEO |-> \HE0, AUDIO |-> \HE1,
   PIXELWIDTH |-> \HB0, PIXELHEIGHT |-> \HBA, DISPLAYWIDTH |-> \H54B0,
   DISPLAYHEIGHT |-> \H54BA, INTERLACED |-> \H9A, GAMMA |-> \H2FB523,
   STEREOMODE |-> \H53B8, SAMPLINGFREQUENCY |-> \HB5, CHANNELS |-> \H9F,
   BITDEPTH |-> \H6264,
   ATTACHMENTS |-> \H1941A469, ATTACHEDFILE |-> \H61A7,
   FILEDESCRIPTION |-> \H467E, FILENAME |-> \H466E, FILEMIMETYPE |-> \H4660,
   FILEDATA |-> \H465C,
   CHAPTERS |-> \H1043A770, EDITIONENTRY |-> \H45B9, EDITIONUID |-> \H45BC,
   EDITIONFLAGHIDDEN |-> \H45BD, EDITIONFLAGDEFAULT |-> \H45DB,
   EDITIONFLAGORDERED |-> \H45DD, CHAPTERATOM |-> \HB6,
   CHAPTERUID |-> \H73C4, CHAPTERTIMESTART |-> \H91, CHAPTERTIMEEND |-> \H92,
   CHAPTERFLAGHIDDEN |-> \H98, CHAPTERFLAGENABLED |-> \H4598,
   CHAPTERSEGMENTUID |-> \H6E67, CHAPTERSEGMENTEDITIONUID |-> \H6EBC,
   CHAPTERDISPLAY |-> \H80, CHAPSTRING |-> \H85, CHAPLANGUAGE |-> \H437C,
   CHAPLANGUAGE_IETF |-> \H437D,
   TAGS |-> \H1254C367, TAG |-> \H7373, TARGETS |-> \H63C0,
   TARGETTYPEVALUE |-> \H68CA, TARGETTYPE |-> \H63CA,
   TAG_TRACK_UID |-> \H63C5, TAG_EDITION_UID |-> \H63C9,
   TAG_CHAPTER_UID |-> \H63C4, TAG_ATTACHMENT_UID |-> \H63C6,
   SIMPLETAG |-> \H67C8, TAGNAME |-> \H45A3, TAGLANGUAGE |-> \H447A,
   TAGLANGUAGE_IETF |-> \H447B, TAGDEFAULT |-> \H4484, TAGSTRING |-> \H4487,
   TAGBINARY |-> \H4485]

-----------------------------------------------------------------------------
(* Record builders: folds over the children of a master element.           *)

None == <<>>

Some(x) == <<x>>

\* `for e in elements { acc = Step(acc, e) }`
FoldElements(Step(_, _), init, elements) ==
  LET acc[i \in 0..Len(elements)] ==
        IF i = 0 THEN init ELSE Step(acc[i - 1], elements[i])
  IN  acc[Len(elements)]

\* The pattern Element { id, val: ElementType::kind(_), .. }.
Is(e, id, kind) == e.id = id /\ e.val.kind = kind

\* `filter_map` of the master children with the given ID through Build.
BuildEntries(Build(_), id, elements) ==
  FoldElements(LAMBDA acc, e :
                 IF Is(e, id, "Master") THEN Append(acc, Build(e.val.v)) ELSE acc,
               <<>>, elements)

Seek_new == [id |-> <<>>, position |-> U64Zero]

Seek_build(elements) ==
  FoldElements(LAMBDA seek, e :
                 IF Is(e, ids.SEEKID, "Binary") THEN [seek EXCEPT !.id = e.val.v]
                 ELSE IF Is(e, ids.SEEKPOSITION, "UInt")
                      THEN [seek EXCEPT !.position = e.val.v]
                 ELSE seek,
               Seek_new, elements)

\* A u32 as 4 big-endian base-256 digits (the keys of the seek table).
U32(n) ==
  <<(n \div 16777216) % 256, (n \div 65536) % 256, (n \div 256) % 256, n % 256>>

\* Seek::id: fold (acc << 8) | byte in 32 bits.
Seek_id(seek) ==
  LET acc[i \in 0..Len(seek.id)] ==
        IF i = 0 THEN U32(0)
        ELSE <<acc[i - 1][2], acc[i - 1][3], acc[i - 1][4], seek.id[i]>>
  IN  acc[Len(seek.id)]

\* BTreeMap::insert and remove on a function from keys to values.
MapInsert(m, k, v) ==
  [x \in DOMAIN m \cup {k} |-> IF x = k THEN v ELSE m[x]]

MapRemove(m, k) == [x \in DOMAIN m \ {k} |-> m[x]]

EmptyMap == [x \in {} |-> U64Zero]

Seektable_new(offset) == [offset |-> offset, seek |-> EmptyMap]

\* Seektable::get with a wrapping addition in place of checked_add.
Seektable_get_wrapping(self, id) ==
  IF U32(id) \in DOMAIN self.seek
  THEN [ok |-> TRUE, val |-> Some(U64Add(self.offset, self.seek[U32(id)]).w)]
  ELSE [ok |-> TRUE, val |-> None]

Seektable_get(self, id) ==
  IF U32(id) \in DOMAIN self.seek
  THEN LET a == U64Add(self.offset, self.seek[U32(id)]) IN
       IF a.carry = 0 THEN [ok |-> TRUE, val |-> Some(a.w)]
       ELSE Err("InvalidSeekHead")
  ELSE [ok |-> TRUE, val |-> None]

\* The loop of Seektable::parse keeping the first position listed for an ID.
Seektable_insert_first(self, elements) ==
  FoldElements(LAMBDA st, e :
                 IF Is(e, ids.SEEK, "Master")
                 THEN LET seek == Seek_build(e.val.v) IN
                      IF Seek_id(seek) \in DOMAIN st.seek THEN st
                      ELSE [st EXCEPT !.seek = MapInsert(@, Seek_id(seek), seek.position)]
                 ELSE st,
               self, elements)

\* The `for e in parse_master(..)` loop of Seektable::parse.
Seektable_insert_all(self, elements) ==
  FoldElements(LAMBDA st, e :
                 IF Is(e, ids.SEEK, "Master")
                 THEN LET seek == Seek_build(e.val.v) IN
                      [st EXCEPT !.seek = MapInsert(@, Seek_id(seek), seek.position)]
                 ELSE st,
               self, elements)

-----------------------------------------------------------------------------
(* Info.                                                                   *)

Info_new ==
  [uid |-> None, prev_uid |-> None, next_uid |-> None, family_uids |-> <<>>,
   title |-> None, duration |-> None, date_utc |-> None,
   muxing_app |-> <<>>, writing_app |-> <<>>]

U64ToBits(w) ==
  [k \in 1..64 |-> (w[((k - 1) \div 8) + 1] \div (2 ^ (7 - ((k - 1) % 8)))) % 2]

U64Max == [i \in U64Digits |-> 255]

\* The significand of a normal f64 (implicit one, then the 52 fraction
\* bits) cut after its last one bit.
F64Significand(bits) ==
  LET sig == <<1>> \o SubSeq(bits, 13, 64)
      last == CHOOSE k \in 1..53 : sig[k] = 1 /\ \A j \in (k + 1)..53 : sig[j] = 0
  IN  SubSeq(sig, 1, last)

\* The inputs on which the product below is computed exactly: the scale and
\* the product of significand and scale are below 2^31.
DurationInModel(d, scale) ==
  LET bits == U64ToBits(d)
      E == BitsToU32(SubSeq(bits, 2, 12))
      sig == F64Significand(bits)
  IN  \/ E = 0 \/ E = 2047 \/ bits[1] = 1 \/ scale = U64Zero
      \/ /\ \A i \in 1..4 : scale[i] = 0
         /\ scale[5] < 128
         /\ Len(sig) <= 30
         /\ 2147483647 \div (BitsToU32(sig) + 1) >= BitsToU32(U64ToBits(scale))

\* (d * timecode_scale as f64).round() as u64: the f64 product rounded to
\* the nearest whole number, half away from zero.
DurationNanos_rounded(d, scale) ==
  LET bits == U64ToBits(d)
      E == BitsToU32(SubSeq(bits, 2, 12))
      sig == F64Significand(bits)
      product == BitsToU32(sig) * BitsToU32(SubSeq(U64ToBits(scale), 33, 64))
      pbits == NatToBits(product, 31)
      e2 == E - 1023 - (Len(sig) - 1)
      shifted == pbits \o Zeros(e2)
  IN  IF E = 2047
      THEN IF SubSeq(bits, 13, 64) = Zeros(52) /\ bits[1] = 0 /\ scale # U64Zero
           THEN U64Max ELSE U64Zero
      ELSE IF E = 0 \/ bits[1] = 1 \/ scale = U64Zero THEN U64Zero
      ELSE IF ~DurationInModel(d, scale) THEN CHOOSE x \in {} : TRUE
      ELSE IF e2 < 0
           THEN IF -e2 > 31 THEN U64Zero
                ELSE U64Add(BitsToU64(SubSeq(pbits, 1, 31 + e2)),
                            U64(pbits[31 + e2 + 1])).w
      ELSE IF Len(shifted) <= 64 THEN BitsToU64(shifted)
      ELSE IF \A k \in 1..(Len(shifted) - 64) : shifted[k] = 0
           THEN BitsToU64(SubSeq(shifted, Len(shifted) - 63, Len(shifted)))
      ELSE U64Max

\* (d * timecode_scale as f64) as u64: the f64 product truncated toward
\* zero, saturating; NaN and negative products give 0.
DurationNanos(d, scale) ==
  LET bits == U64ToBits(d)
      E == BitsToU32(SubSeq(bits, 2, 12))
      sig == F64Significand(bits)
      product == BitsToU32(sig) * BitsToU32(SubSeq(U64ToBits(scale), 33, 64))
      pbits == NatToBits(product, 31)
      e2 == E - 1023 - (Len(sig) - 1)
      shifted == pbits \o Zeros(e2)
  IN  IF E = 2047
      THEN IF SubSeq(bits, 13, 64) = Zeros(52) /\ bits[1] = 0 /\ scale # U64Zero
           THEN U64Max ELSE U64Zero
      ELSE IF E = 0 \/ bits[1] = 1 \/ scale = U64Zero THEN U64Zero
      ELSE IF ~DurationInModel(d, scale) THEN CHOOSE x \in {} : TRUE
      ELSE IF e2 < 0
           THEN IF -e2 >= 31 THEN U64Zero
                ELSE BitsToU64(SubSeq(pbits, 1, 31 + e2))
      ELSE IF Len(shifted) <= 64 THEN BitsToU64(shifted)
      ELSE IF \A k \in 1..(Len(shifted) - 64) : shifted[k] = 0
           THEN BitsToU64(SubSeq(shifted, Len(shifted) - 63, Len(shifted)))
      ELSE U64Max

\* The fold of Info::parse that fixes the scale of the duration when it
\* meets the Duration child: a TimecodeScale that comes later is not used.
Info_fold_eager(st, e) ==
  CASE Is(e, ids.SEGMENTUID, "Binary") -> [st EXCEPT !.info.uid = Some(e.val.v)]
    [] Is(e, ids.PREVUID, "Binary") -> [st EXCEPT !.info.prev_uid = Some(e.val.v)]
    [] Is(e, ids.NEXTUID, "Binary") -> [st EXCEPT !.info.next_uid = Some(e.val.v)]
    [] Is(e, ids.SEGMENTFAMILY, "Binary") ->
         [st EXCEPT !.info.family_uids = Append(@, e.val.v)]
    [] Is(e, ids.TITLE, "UTF8") -> [st EXCEPT !.info.title = Some(e.val.v)]
    [] Is(e, ids.TIMECODESCALE, "UInt") ->
         IF st.duration # None THEN st
         ELSE [st EXCEPT !.timecode_scale = e.val.v]
    [] Is(e, ids.DURATION, "Float") -> [st EXCEPT !.duration = Some(e.val.v)]
    [] Is(e, ids.DATEUTC, "Date") -> [st EXCEPT !.info.date_utc = Some(e.val.v)]
    [] Is(e, ids.MUXINGAPP, "UTF8") -> [st EXCEPT !.info.muxing_app = e.val.v]
    [] Is(e, ids.WRITINGAPP, "UTF8") -> [st EXCEPT !.info.writing_app = e.val.v]
    [] OTHER -> st

Info_fold(st, e) ==
  CASE Is(e, ids.SEGMENTUID, "Binary") -> [st EXCEPT !.info.uid = Some(e.val.v)]
    [] Is(e, ids.PREVUID, "Binary") -> [st EXCEPT !.info.prev_uid = Some(e.val.v)]
    [] Is(e, ids.NEXTUID, "Binary") -> [st EXCEPT !.info.next_uid = Some(e.val.v)]
    [] Is(e, ids.SEGMENTFAMILY, "Binary") ->
         [st EXCEPT !.info.family_uids = Append(@, e.val.v)]
    [] Is(e, ids.TITLE, "UTF8") -> [st EXCEPT !.info.title = Some(e.val.v)]
    [] Is(e, ids.TIMECODESCALE, "UInt") -> [st EXCEPT !.timecode_scale = e.val.v]
    [] Is(e, ids.DURATION, "Float") -> [st EXCEPT !.duration = Some(e.val.v)]
    [] Is(e, ids.DATEUTC, "Date") -> [st EXCEPT !.info.date_utc = Some(e.val.v)]
    [] Is(e, ids.MUXINGAPP, "UTF8") -> [st EXCEPT !.info.muxing_app = e.val.v]
    [] Is(e, ids.WRITINGAPP, "UTF8") -> [st EXCEPT !.info.writing_app = e.val.v]
    [] OTHER -> st

\* Info::parse from the children parse_master has returned: the loop over
\* them, then the duration.
Info_build(elements) ==
  With(FoldElements(Info_fold,
                    [info |-> Info_new, timecode_scale |-> U64(1000000),
                     duration |-> None],
                    elements),
       LAMBDA st :
         IF st.duration # None
         THEN [st.info EXCEPT !.duration =
                 Some(DurationNanos(st.duration[1], st.timecode_scale))]
         ELSE st.info)

Info_parse(f, pos, size) ==
  With(parse_master(f, pos, size), LAMBDA r :
    IF ~r.ok THEN r
    ELSE [ok |-> TRUE, val |-> Info_build(r.val), pos |-> r.pos])

-----------------------------------------------------------------------------
(* Tracks.                                                                 *)

NonZero(w) == w # U64Zero

\* bytes.first().map(|b| *b != 0)
FirstNonZero(bytes) == IF bytes = <<>> THEN None ELSE Some(bytes[1] # 0)

Tracktype_new(tracktype) ==
  CASE tracktype = U64(1) -> "Video"
    [] tracktype = U64(2) -> "Audio"
    [] tracktype = U64(3) -> "Complex"
    [] tracktype = U64(16) -> "Logo"
    [] tracktype = U64(17) -> "Subtitle"
    [] tracktype = U64(18) -> "Buttons"
    [] tracktype = U64(32) -> "Control"
    [] OTHER -> "Unknown"

Video_new ==
  [pixel_width |-> U64Zero, pixel_height |-> U64Zero, display_width |-> None,
   display_height |-> None, interlaced |-> None, stereo |-> None,
   gamma |-> None]

StereoModes ==
  <<<<"Mono">>, <<"SideBySide", "LeftFirst">>, <<"TopBottom", "RightFirst">>,
    <<"TopBottom", "LeftFirst">>, <<"Checkboard", "RightFirst">>,
    <<"Checkboard", "LeftFirst">>, <<"RowInterleaved", "RightFirst">>,
    <<"RowInterleaved", "LeftFirst">>, <<"ColumnInterleaved", "RightFirst">>,
    <<"ColumnInterleaved", "LeftFirst">>, <<"Anaglyph", "CyanRed">>,
    <<"SideBySide", "RightFirst">>, <<"Anaglyph", "GreenMagenta">>,
    <<"Interlaced", "LeftFirst">>, <<"Interlaced", "RightFirst">>>>

Video_fold(video, e) ==
  CASE Is(e, ids.PIXELWIDTH, "UInt") -> [video EXCEPT !.pixel_width = e.val.v]
    [] Is(e, ids.PIXELHEIGHT, "UInt") -> [video EXCEPT !.pixel_height = e.val.v]
    [] Is(e, ids.DISPLAYWIDTH, "UInt") ->
         [video EXCEPT !.display_width = Some(e.val.v)]
    [] Is(e, ids.DISPLAYHEIGHT, "UInt") ->
         [video EXCEPT !.display_height = Some(e.val.v)]
    [] Is(e, ids.INTERLACED, "UInt") ->
         [video EXCEPT !.interlaced =
            IF e.val.v = U64(1) THEN Some(TRUE)
            ELSE IF e.val.v = U64(2) THEN Some(FALSE) ELSE None]
    [] Is(e, ids.GAMMA, "Float") -> [video EXCEPT !.gamma = Some(e.val.v)]
    [] Is(e, ids.STEREOMODE, "UInt") ->
         [video EXCEPT !.stereo =
            IF U64Le(e.val.v, U64(14))
            THEN Some(StereoModes[U64Nat(e.val.v) + 1]) ELSE None]
    [] OTHER -> video

Video_build(elements) == FoldElements(Video_fold, Video_new, elements)

\* sample_rate 0.0 is the all-zero bit pattern.
Audio_new == [sample_rate |-> U64Zero, channels |-> U64Zero, bit_depth |-> None]

\* The fold of Audio::build that takes the Channels child when its value is
\* a Binary as well.
Audio_fold_any_kind(audio, e) ==
  CASE Is(e, ids.SAMPLINGFREQUENCY, "Float") ->
         [audio EXCEPT !.sample_rate = e.val.v]
    [] Is(e, ids.CHANNELS, "UInt") \/ Is(e, ids.CHANNELS, "Binary") ->
         [audio EXCEPT !.channels = e.val.v]
    [] Is(e, ids.BITDEPTH, "UInt") -> [audio EXCEPT !.bit_depth = Some(e.val.v)]
    [] OTHER -> audio

Audio_fold(audio, e) ==
  CASE Is(e, ids.SAMPLINGFREQUENCY, "Float") ->
         [audio EXCEPT !.sample_rate = e.val.v]
    [] Is(e, ids.CHANNELS, "UInt") -> [audio EXCEPT !.channels = e.val.v]
    [] Is(e, ids.BITDEPTH, "UInt") -> [audio EXCEPT !.bit_depth = Some(e.val.v)]
    [] OTHER -> audio

Audio_build(elements) == FoldElements(Audio_fold, Audio_new, elements)

Track_new ==
  [number |-> U64Zero, uid |-> U64Zero, tracktype |-> "Unknown",
   enabled |-> TRUE, default |-> TRUE, forced |-> FALSE,
   hearing_impaired |-> None, visual_impaired |-> None,
   text_descriptions |-> None, original |-> None, commentary |-> None,
   interlaced |-> TRUE, default_duration |-> None, name |-> None,
   language |-> None, codec_id |-> <<>>, codec_private |-> None,
   codec_name |-> None, settings |-> [kind |-> "None"]]

Language_ISO639(s) == [form |-> "ISO639", s |-> s]

Language_IETF(s) == [form |-> "IETF", s |-> s]

IsSomeIETF(language) == language # None /\ language[1].form = "IETF"

Track_fold(track, e) ==
  CASE Is(e, ids.TRACKNUMBER, "UInt") -> [track EXCEPT !.number = e.val.v]
    [] Is(e, ids.TRACKUID, "UInt") -> [track EXCEPT !.uid = e.val.v]
    [] Is(e, ids.TRACKTYPE, "UInt") ->
         [track EXCEPT !.tracktype = Tracktype_new(e.val.v)]
    [] Is(e, ids.FLAGENABLED, "UInt") -> [track EXCEPT !.enabled = NonZero(e.val.v)]
    [] Is(e, ids.FLAGDEFAULT, "UInt") -> [track EXCEPT !.default = NonZero(e.val.v)]
    [] Is(e, ids.FLAGFORCED, "UInt") -> [track EXCEPT !.forced = NonZero(e.val.v)]
    [] Is(e, ids.FLAGHEARINGIMPAIRED, "Binary") ->
         [track EXCEPT !.hearing_impaired = FirstNonZero(e.val.v)]
    [] Is(e, ids.FLAGHEARINGIMPAIRED, "UInt") ->
         [track EXCEPT !.hearing_impaired = Some(NonZero(e.val.v))]
    [] Is(e, ids.FLAGVISUALIMPAIRED, "Binary") ->
         [track EXCEPT !.visual_impaired = FirstNonZero(e.val.v)]
    [] Is(e, ids.FLAGVISUALIMPAIRED, "UInt") ->
         [track EXCEPT !.visual_impaired = Some(NonZero(e.val.v))]
    [] Is(e, ids.FLAGTEXTDESCRIPTIONS, "Binary") ->
         [track EXCEPT !.text_descriptions = FirstNonZero(e.val.v)]
    [] Is(e, ids.FLAGTEXTDESCRIPTIONS, "UInt") ->
         [track EXCEPT !.text_descriptions = Some(NonZero(e.val.v))]
    [] Is(e, ids.FLAGORIGINAL, "Binary") ->
         [track EXCEPT !.original = FirstNonZero(e.val.v)]
    [] Is(e, ids.FLAGORIGINAL, "UInt") ->
         [track EXCEPT !.original = Some(NonZero(e.val.v))]
    [] Is(e, ids.FLAGCOMMENTARY, "Binary") ->
         [track EXCEPT !.commentary = FirstNonZero(e.val.v)]
    [] Is(e, ids.FLAGCOMMENTARY, "UInt") ->
         [track EXCEPT !.commentary = Some(NonZero(e.val.v))]
    [] Is(e, ids.FLAGLACING, "UInt") -> [track EXCEPT !.interlaced = NonZero(e.val.v)]
    [] Is(e, ids.DEFAULTDURATION, "UInt") ->
         [track EXCEPT !.default_duration = Some(e.val.v)]
    [] Is(e, ids.NAME, "UTF8") -> [track EXCEPT !.name = Some(e.val.v)]
    [] Is(e, ids.LANGUAGE, "String") ->
         IF ~IsSomeIETF(track.language)
         THEN [track EXCEPT !.language = Some(Language_ISO639(e.val.v))]
         ELSE track
    [] Is(e, ids.LANGUAGE_IETF, "String") ->
         [track EXCEPT !.language = Some(Language_IETF(e.val.v))]
    [] Is(e, ids.CODEC_ID, "String") -> [track EXCEPT !.codec_id = e.val.v]
    [] Is(e, ids.CODEC_PRIVATE, "Binary") ->
         [track EXCEPT !.codec_private = Some(e.val.v)]
    [] Is(e, ids.CODEC_NAME, "UTF8") -> [track EXCEPT !.codec_name = Some(e.val.v)]
    [] Is(e, ids.VIDEO, "Master") ->
         [track EXCEPT !.settings = [kind |-> "Video", v |-> Video_build(e.val.v)]]
    [] Is(e, ids.AUDIO, "Master") ->
         [track EXCEPT !.settings = [kind |-> "Audio", v |-> Audio_build(e.val.v)]]
    [] OTHER -> track

Track_build_entry(elements) == FoldElements(Track_fold, Track_new, elements)

Track_parse(f, pos, size) ==
  With(parse_master(f, pos, size), LAMBDA r :
    IF ~r.ok THEN r
    ELSE [ok |-> TRUE,
          val |-> BuildEntries(Track_build_entry, ids.TRACKENTRY, r.val),
          pos |-> r.pos])

-----------------------------------------------------------------------------
(* Attachments.                                                            *)

Attachment_new ==
  [description |-> None, name |-> <<>>, mime_type |-> <<>>, data |-> <<>>]

Attachment_fold(attachment, e) ==
  CASE Is(e, ids.FILEDESCRIPTION, "UTF8") ->
         [attachment EXCEPT !.description = Some(e.val.v)]
    [] Is(e, ids.FILENAME, "UTF8") -> [attachment EXCEPT !.name = e.val.v]
    [] Is(e, ids.FILEMIMETYPE, "String") -> [attachment EXCEPT !.mime_type = e.val.v]
    [] Is(e, ids.FILEDATA, "Binary") -> [attachment EXCEPT !.data = e.val.v]
    [] OTHER -> attachment

Attachment_build_entry(elements) ==
  FoldElements(Attachment_fold, Attachment_new, elements)

Attachment_parse(f, pos, size) ==
  With(parse_master(f, pos, size), LAMBDA r :
    IF ~r.ok THEN r
    ELSE [ok |-> TRUE,
          val |-> BuildEntries(Attachment_build_entry, ids.ATTACHEDFILE, r.val),
          pos |-> r.pos])

-----------------------------------------------------------------------------
(* Chapters.                                                               *)

ChapterDisplay_new == [string |-> <<>>, language |-> Language_ISO639(<<>>)]

\* The fold of ChapterDisplay::build with the test of the ISO-639 arm left
\* out: the language child that comes last wins.
ChapterDisplay_fold_last_wins(display, e) ==
  CASE Is(e, ids.CHAPSTRING, "UTF8") -> [display EXCEPT !.string = e.val.v]
    [] Is(e, ids.CHAPLANGUAGE, "String") ->
         [display EXCEPT !.language = Language_ISO639(e.val.v)]
    [] Is(e, ids.CHAPLANGUAGE_IETF, "String") ->
         [display EXCEPT !.language = Language_IETF(e.val.v)]
    [] OTHER -> display

ChapterDisplay_fold(display, e) ==
  CASE Is(e, ids.CHAPSTRING, "UTF8") -> [display EXCEPT !.string = e.val.v]
    [] Is(e, ids.CHAPLANGUAGE, "String") ->
         IF display.language.form # "IETF"
         THEN [display EXCEPT !.language = Language_ISO639(e.val.v)]
         ELSE display
    [] Is(e, ids.CHAPLANGUAGE_IETF, "String") ->
         [display EXCEPT !.language = Language_IETF(e.val.v)]
    [] OTHER -> display

ChapterDisplay_build(elements) ==
  FoldElements(ChapterDisplay_fold, ChapterDisplay_new, elements)

Chapter_new ==
  [uid |-> U64Zero, time_start |-> U64Zero, time_end |-> None,
   hidden |-> FALSE, enabled |-> FALSE, segment_uid |-> None,
   segment_edition_uid |-> None, display |-> <<>>]

Chapter_fold(chapter, e) ==
  CASE Is(e, ids.CHAPTERUID, "UInt") -> [chapter EXCEPT !.uid = e.val.v]
    [] Is(e, ids.CHAPTERTIMESTART, "UInt") -> [chapter EXCEPT !.time_start = e.val.v]
    [] Is(e, ids.CHAPTERTIMEEND, "UInt") ->
         [chapter EXCEPT !.time_end = Some(e.val.v)]
    [] Is(e, ids.CHAPTERFLAGHIDDEN, "UInt") ->
         [chapter EXCEPT !.hidden = NonZero(e.val.v)]
    [] Is(e, ids.CHAPTERFLAGENABLED, "UInt") ->
         [chapter EXCEPT !.enabled = NonZero(e.val.v)]
    [] Is(e, ids.CHAPTERSEGMENTUID, "Binary") ->
         [chapter EXCEPT !.segment_uid = Some(e.val.v)]
    [] Is(e, ids.CHAPTERSEGMENTEDITIONUID, "UInt") ->
         [chapter EXCEPT !.segment_edition_uid = Some(e.val.v)]
    [] Is(e, ids.CHAPTERDISPLAY, "Master") ->
         [chapter EXCEPT !.display = Append(@, ChapterDisplay_build(e.val.v))]
    [] OTHER -> chapter

Chapter_build(elements) == FoldElements(Chapter_fold, Chapter_new, elements)

ChapterEdition_new ==
  [uid |-> None, hidden |-> FALSE, default |-> FALSE, ordered |-> FALSE,
   chapters |-> <<>>]

ChapterEdition_fold(edition, e) ==
  CASE Is(e, ids.EDITIONUID, "UInt") -> [edition EXCEPT !.uid = Some(e.val.v)]
    [] Is(e, ids.EDITIONFLAGHIDDEN, "UInt") ->
         [edition EXCEPT !.hidden = NonZero(e.val.v)]
    [] Is(e, ids.EDITIONFLAGDEFAULT, "UInt") ->
         [edition EXCEPT !.default = NonZero(e.val.v)]
    [] Is(e, ids.EDITIONFLAGORDERED, "UInt") ->
         [edition EXCEPT !.ordered = NonZero(e.val.v)]
    [] Is(e, ids.CHAPTERATOM, "Master") ->
         [edition EXCEPT !.chapters = Append(@, Chapter_build(e.val.v))]
    [] OTHER -> edition

ChapterEdition_build_entry(elements) ==
  FoldElements(ChapterEdition_fold, ChapterEdition_new, elements)

ChapterEdition_parse(f, pos, size) ==
  With(parse_master(f, pos, size), LAMBDA r :
    IF ~r.ok THEN r
    ELSE [ok |-> TRUE,
          val |-> BuildEntries(ChapterEdition_build_entry, ids.EDITIONENTRY, r.val),
          pos |-> r.pos])

-----------------------------------------------------------------------------
(* Tags.                                                                   *)

TargetTypeValue_from(val) ==
  CASE val = U64(70) -> "Collection"
    [] val = U64(60) -> "Season"
    [] val = U64(50) -> "Episode"
    [] val = U64(40) -> "Part"
    [] val = U64(30) -> "Chapter"
    [] val = U64(20) -> "Scene"
    [] val = U64(10) -> "Shot"
    [] OTHER -> "Unknown"

Target_new ==
  [target_type_value |-> None, target_type |-> None, track_uids |-> <<>>,
   edition_uids |-> <<>>, chapter_uids |-> <<>>, attachment_uids |-> <<>>]

Target_fold(target, e) ==
  CASE Is(e, ids.TARGETTYPEVALUE, "UInt") ->
         [target EXCEPT !.target_type_value = Some(TargetTypeValue_from(e.val.v))]
    [] Is(e, ids.TARGETTYPE, "String") ->
         [target EXCEPT !.target_type = Some(e.val.v)]
    [] Is(e, ids.TAG_TRACK_UID, "UInt") ->
         [target EXCEPT !.track_uids = Append(@, e.val.v)]
    [] Is(e, ids.TAG_EDITION_UID, "UInt") ->
         [target EXCEPT !.edition_uids = Append(@, e.val.v)]
    [] Is(e, ids.TAG_CHAPTER_UID, "UInt") ->
         [target EXCEPT !.chapter_uids = Append(@, e.val.v)]
    [] Is(e, ids.TAG_ATTACHMENT_UID, "UInt") ->
         [target EXCEPT !.attachment_uids = Append(@, e.val.v)]
    [] OTHER -> target

Target_build_entry(elements) == FoldElements(Target_fold, Target_new, elements)

SimpleTag_new ==
  [name |-> <<>>, language |-> None, default |-> FALSE, value |-> None]

SimpleTag_fold(tag, e) ==
  CASE Is(e, ids.TAGNAME, "UTF8") -> [tag EXCEPT !.name = e.val.v]
    [] Is(e, ids.TAGLANGUAGE, "String") ->
         IF ~IsSomeIETF(tag.language)
         THEN [tag EXCEPT !.language = Some(Language_ISO639(e.val.v))]
         ELSE tag
    [] Is(e, ids.TAGLANGUAGE_IETF, "String") ->
         [tag EXCEPT !.language = Some(Language_IETF(e.val.v))]
    [] Is(e, ids.TAGDEFAULT, "UInt") -> [tag EXCEPT !.default = NonZero(e.val.v)]
    [] Is(e, ids.TAGSTRING, "UTF8") ->
         [tag EXCEPT !.value = Some([kind |-> "String", v |-> e.val.v])]
    [] Is(e, ids.TAGBINARY, "Binary") ->
         [tag EXCEPT !.value = Some([kind |-> "Binary", v |-> e.val.v])]
    [] OTHER -> tag

SimpleTag_build_entry(elements) ==
  FoldElements(SimpleTag_fold, SimpleTag_new, elements)

Tag_new == [targets |-> None, simple |-> <<>>]

Tag_fold(tag, e) ==
  CASE Is(e, ids.TARGETS, "Master") ->
         [tag EXCEPT !.targets = Some(Target_build_entry(e.val.v))]
    [] Is(e, ids.SIMPLETAG, "Master") ->
         [tag EXCEPT !.simple = Append(@, SimpleTag_build_entry(e.val.v))]
    [] OTHER -> tag

Tag_build_entry(elements) == FoldElements(Tag_fold, Tag_new, elements)

Tag_parse(f, pos, size) ==
  With(parse_master(f, pos, size), LAMBDA r :
    IF ~r.ok THEN r
    ELSE [ok |-> TRUE,
          val |-> BuildEntries(Tag_build_entry, ids.TAG, r.val),
          pos |-> r.pos])

-----------------------------------------------------------------------------
(* The navigator: Matroska::open and Seektable::parse, one action for each *)
(* straight-line stretch of code and each loop iteration.                  *)

Matroska_new ==
  [info |-> Info_new, tracks |-> <<>>, attachments |-> <<>>,
   chapters |-> <<>>, tags |-> <<>>]

\* The byte index a read at stream position c starts from: a position past
\* the end of the source reads like the end of the source.
SourcePos(f, c) ==
  IF U64IsSmall(c) /\ U64Nat(c) <= Len(f) THEN U64Nat(c) ELSE Len(f)

\* The stream position after a read that started at c and stopped at byte
\* index p.
Advance(f, c, p) == U64Add(c, U64(p - SourcePos(f, c))).w

\* n as i64 is negative: bit 63 of n is set.
IsNegativeI64(n) == n[1] >= 128

\* file.seek(SeekFrom::Start(n)) in the place of the relative seek.
SeekCurrent_from_start(c, n) == [ok |-> TRUE, val |-> n]

\* file.seek(SeekFrom::Current(n as i64)): the new position is the old one
\* plus the signed offset; a position below 0 or above 2^64 - 1 is an
\* error of the seek and the position is left as it is.
SeekCurrent(c, n) ==
  IF IsNegativeI64(n)
  THEN LET back == U64Sub(c, U64Sub(U64Zero, n).w)
       IN  IF back.borrow = 0 THEN [ok |-> TRUE, val |-> back.w]
           ELSE Err("Io")
  ELSE LET on == U64Add(c, n)
       IN  IF on.carry = 0 THEN [ok |-> TRUE, val |-> on.w] ELSE Err("Io")

\* An arithmetic overflow panics in a build with overflow checks and wraps
\* in a build without: both outcomes, or the one outcome of the build when
\* the call records which build the process runs.
Overflows(what, wrapped) ==
  IF "checks" \in DOMAIN call
  THEN IF call.checks THEN {Panic(what)} ELSE {[ok |-> TRUE, val |-> wrapped]}
  ELSE {Panic(what), [ok |-> TRUE, val |-> wrapped]}

\* size_0 -= len; size_0 -= size_1;
Decrement(size, len, size_1) ==
  LET a == U64Sub(size, U64(len))
      b == U64Sub(a.w, size_1)
  IN  IF a.borrow = 0 /\ b.borrow = 0 THEN {[ok |-> TRUE, val |-> b.w]}
      ELSE Overflows("attempt to subtract with overflow", b.w)

SectionIds == <<ids.INFO, ids.TRACKS, ids.ATTACHMENTS, ids.CHAPTERS, ids.TAGS>>

IsSectionId(id) == \E i \in 1..Len(SectionIds) : SectionIds[i] = id

\* P::parse for the section with the given ID.
Section_parse(id, f, pos, size) ==
  CASE id = ids.INFO -> Info_parse(f, pos, size)
    [] id = ids.TRACKS -> Track_parse(f, pos, size)
    [] id = ids.ATTACHMENTS -> Attachment_parse(f, pos, size)
    [] id = ids.CHAPTERS -> ChapterEdition_parse(f, pos, size)
    [] id = ids.TAGS -> Tag_parse(f, pos, size)

\* matroska.<section> = value
Section_assign(m, id, value) ==
  CASE id = ids.INFO -> [m EXCEPT !.info = value]
    [] id = ids.TRACKS -> [m EXCEPT !.tracks = value]
    [] id = ids.ATTACHMENTS -> [m EXCEPT !.attachments = value]
    [] id = ids.CHAPTERS -> [m EXCEPT !.chapters = value]
    [] id = ids.TAGS -> [m EXCEPT !.tags = value]

Logged(kind, id, at) == [kind |-> kind, id |-> id, at |-> at]

Return(result) ==
  /\ outcome' = result
  /\ pc' = "returned"

\* let (mut id_0, mut size_0, _) = read_element_id_size(&mut file)?;
OpenReadFirstHeader ==
  /\ pc = "open"
  /\ \E h \in {read_element_id_size(file, SourcePos(file, cursor))} :
       IF ~h.ok
       THEN /\ Return(h)
            /\ UNCHANGED <<cursor, id_0, size_0>>
       ELSE /\ id_0' = h.id
            /\ size_0' = h.size
            /\ cursor' = Advance(file, cursor, h.pos)
            /\ pc' = "top"
            /\ UNCHANGED outcome
  /\ UNCHANGED <<file, call, layout, segment_start, matroska, seektable,
                 table_size, hdr, log, prev>>

\* One iteration of `while id_0 != ids::SEGMENT`.
OpenSkipTopLevel ==
  /\ pc = "top"
  /\ id_0 # ids.SEGMENT
  /\ \E s \in {SeekCurrent(cursor, size_0)} :
       IF ~s.ok
       THEN /\ Return(s)
            /\ UNCHANGED <<cursor, id_0, size_0>>
       ELSE \E h \in {read_element_id_size(file, SourcePos(file, s.val))} :
              IF ~h.ok
              THEN /\ Return(h)
                   /\ cursor' = s.val
                   /\ UNCHANGED <<id_0, size_0>>
              ELSE /\ id_0' = h.id
                   /\ size_0' = h.size
                   /\ cursor' = Advance(file, s.val, h.pos)
                   /\ UNCHANGED <<pc, outcome>>
  /\ UNCHANGED <<file, call, layout, segment_start, matroska, hdr, seektable,
                 table_size, log, prev>>

\* let segment_start = file.stream_position()?;
OpenEnterSegment ==
  /\ pc = "top"
  /\ id_0 = ids.SEGMENT
  /\ segment_start' = cursor
  /\ pc' = "segment"
  /\ UNCHANGED <<file, call, outcome, layout, cursor, id_0, size_0, matroska,
                 hdr, seektable, table_size, log, prev>>

\* `while size_0 > 0` is left: Ok(matroska).
OpenSegmentDone ==
  /\ pc = "segment"
  /\ size_0 = U64Zero
  /\ Return([ok |-> TRUE, val |-> matroska])
  /\ UNCHANGED <<file, call, navvars>>

\* let (id_1, size_1, len) = ebml::read_element_id_size(&mut file)?;
OpenReadChild ==
  /\ pc = "segment"
  /\ size_0 # U64Zero
  /\ \E h \in {read_element_id_size(file, SourcePos(file, cursor))} :
       IF ~h.ok
       THEN /\ Return(h)
            /\ UNCHANGED <<cursor, hdr, log>>
       ELSE /\ hdr' = [id_1 |-> h.id, size_1 |-> h.size, len |-> h.len]
            /\ cursor' = Advance(file, cursor, h.pos)
            /\ log' = [log EXCEPT
                         !.scanned = Append(@, Logged("child", h.id, cursor))]
            /\ pc' = "child"
            /\ UNCHANGED outcome
  /\ UNCHANGED <<file, call, layout, id_0, size_0, segment_start, matroska,
                 seektable, table_size, prev>>

\* ids::SEEKHEAD => Seektable::parse(&mut file, segment_start, size_1) is
\* entered: let mut seektable = Seektable::new(segment_start).
OpenChildSeekHead ==
  /\ pc = "child"
  /\ hdr.id_1 = ids.SEEKHEAD
  /\ table_size' = hdr.size_1
  /\ seektable' = Seektable_new(segment_start)
  /\ log' = [log EXCEPT !.chain = @ \cup {cursor}]
  /\ pc' = "seektable"
  /\ UNCHANGED <<file, call, outcome, layout, cursor, id_0, size_0,
                 segment_start, matroska, hdr, prev>>

\* ids::INFO | TRACKS | ATTACHMENTS | CHAPTERS | TAGS => the section is
\* parsed in place, then size_0 -= len; size_0 -= size_1.
OpenChildSection ==
  /\ pc = "child"
  /\ IsSectionId(hdr.id_1)
  /\ \E r \in {Section_parse(hdr.id_1, file, SourcePos(file, cursor),
                              hdr.size_1)} :
       IF ~r.ok
       THEN /\ Return(r)
            /\ UNCHANGED <<cursor, size_0, matroska>>
       ELSE /\ matroska' = Section_assign(matroska, hdr.id_1, r.val)
            /\ cursor' = Advance(file, cursor, r.pos)
            /\ \E d \in Decrement(size_0, hdr.len, hdr.size_1) :
                 IF d.ok
                 THEN size_0' = d.val /\ pc' = "segment" /\ UNCHANGED outcome
                 ELSE Return(d) /\ UNCHANGED size_0
  /\ UNCHANGED <<file, call, layout, id_0, segment_start, seektable,
                 table_size, hdr, log, prev>>

\* _ => file.seek(SeekFrom::Current(size_1 as i64)), then the decrement.
OpenChildSkip ==
  /\ pc = "child"
  /\ hdr.id_1 # ids.SEEKHEAD
  /\ ~IsSectionId(hdr.id_1)
  /\ \E s \in {SeekCurrent(cursor, hdr.size_1)} :
       IF ~s.ok
       THEN Return(s) /\ UNCHANGED <<cursor, size_0>>
       ELSE /\ cursor' = s.val
            /\ \E d \in Decrement(size_0, hdr.len, hdr.size_1) :
                 IF d.ok
                 THEN size_0' = d.val /\ pc' = "segment" /\ UNCHANGED outcome
                 ELSE Return(d) /\ UNCHANGED size_0
  /\ UNCHANGED <<file, call, layout, id_0, segment_start, matroska, seektable,
                 table_size, hdr, log, prev>>

\* for e in Element::parse_master(r, size, ..)? { .. seektable.seek.insert(..) }
SeektableParseMaster ==
  /\ pc = "seektable"
  /\ \E r \in {parse_master(file, SourcePos(file, cursor), table_size)} :
       IF ~r.ok
       THEN /\ Return(r)
            /\ UNCHANGED <<cursor, seektable>>
       ELSE /\ seektable' = Seektable_insert_all(seektable, r.val)
            /\ cursor' = Advance(file, cursor, r.pos)
            /\ pc' = "chain"
            /\ UNCHANGED outcome
  /\ UNCHANGED <<file, call, layout, id_0, size_0, segment_start, matroska,
                 table_size, hdr, log, prev>>

\* Some(next_table) => seek to next_table + segment_start, read the header
\* found there, assert!(id == ids::SEEKHEAD): the outcomes.
Seektable_next(f, start, next_table) ==
  LET a == U64Add(next_table, start)
      targets == IF a.carry = 0 THEN {[ok |-> TRUE, val |-> a.w]}
                 ELSE Overflows("attempt to add with overflow", a.w)
  IN  {IF ~t.ok THEN t
       ELSE With(read_element_id_size(f, SourcePos(f, t.val)), LAMBDA h :
              IF ~h.ok THEN h
              ELSE IF h.id # ids.SEEKHEAD
                   THEN Panic("assert!(id == ids::SEEKHEAD)")
              ELSE [ok |-> TRUE, size |-> h.size,
                    cursor |-> Advance(f, t.val, h.pos)]) :
       t \in targets}

\* match seektable.seek.remove(&ids::SEEKHEAD) { None => break Ok(seektable) }
SeektableReturns ==
  /\ pc = "chain"
  /\ U32(ids.SEEKHEAD) \notin DOMAIN seektable.seek
  /\ pc' = IF call.fn = "get" THEN "get_found" ELSE "sections"
  /\ UNCHANGED <<file, call, outcome, navvars>>

\* Some(next_table) => the loop goes round with size = new_size, or the
\* next SeekHead cannot be entered.
SeektableFollowsChain ==
  /\ pc = "chain"
  /\ U32(ids.SEEKHEAD) \in DOMAIN seektable.seek
  /\ seektable' = [seektable EXCEPT !.seek = MapRemove(@, U32(ids.SEEKHEAD))]
  /\ \E n \in Seektable_next(file, segment_start,
                             seektable.seek[U32(ids.SEEKHEAD)]) :
       IF ~n.ok
       THEN /\ Return(n)
            /\ UNCHANGED <<table_size, cursor, log>>
       ELSE /\ table_size' = n.size
            /\ cursor' = n.cursor
            /\ log' = [log EXCEPT !.chain = @ \cup {n.cursor}]
            /\ pc' = "seektable"
            /\ UNCHANGED outcome
  /\ UNCHANGED <<file, call, layout, id_0, size_0, segment_start, matroska,
                 hdr, prev>>

\* One `if let Some(pos) = seektable.get(ids::X)?` block of Matroska::open
\* that leaves out the assignment to the tracks.
Seek_section_info_only(f, table, st, id) ==
  IF ~st.ok THEN st
  ELSE With(Seektable_get(table, id), LAMBDA g :
  IF ~g.ok THEN g
  ELSE IF g.val = None THEN st
  ELSE With(read_element_id_size(f, SourcePos(f, g.val[1])), LAMBDA h :
  IF ~h.ok THEN h
  ELSE IF h.id # id THEN Panic("assert_eq!(i, ids::X)")
  ELSE With(Section_parse(id, f, h.pos, h.size), LAMBDA r :
  IF ~r.ok THEN r
  ELSE [ok |-> TRUE,
        matroska |-> IF id = ids.TRACKS THEN st.matroska
                     ELSE Section_assign(st.matroska, id, r.val),
        cursor |-> Advance(f, g.val[1], r.pos),
        sought |-> Append(st.sought, Logged("section", id, g.val[1]))])))

\* One `if let Some(pos) = seektable.get(ids::X)? { file.seek(..);
\* let (i, s, _) = read_element_id_size(..)?; assert_eq!(i, ids::X);
\* matroska.x = X::parse(..)?; }` block of Matroska::open, from the state
\* st = [ok, matroska, cursor, sought].
Seek_section(f, table, st, id) ==
  IF ~st.ok THEN st
  ELSE With(Seektable_get(table, id), LAMBDA g :
  IF ~g.ok THEN g
  ELSE IF g.val = None THEN st
  ELSE With(read_element_id_size(f, SourcePos(f, g.val[1])), LAMBDA h :
  IF ~h.ok THEN h
  ELSE IF h.id # id THEN Panic("assert_eq!(i, ids::X)")
  ELSE With(Section_parse(id, f, h.pos, h.size), LAMBDA r :
  IF ~r.ok THEN r
  ELSE [ok |-> TRUE,
        matroska |-> Section_assign(st.matroska, id, r.val),
        cursor |-> Advance(f, g.val[1], r.pos),
        sought |-> Append(st.sought, Logged("section", id, g.val[1]))])))

\* The five blocks run on a Matroska value that has lost what was assigned
\* to it before the SeekHead.
Matroska_from_seektable_alone(f, table, st0) ==
  LET acc[i \in 0..Len(SectionIds)] ==
        IF i = 0 THEN [st0 EXCEPT !.matroska = Matroska_new]
        ELSE Seek_section(f, table, acc[i - 1], SectionIds[i])
  IN  acc[Len(SectionIds)]

\* The five blocks of Matroska::open, in order: INFO, TRACKS, ATTACHMENTS,
\* CHAPTERS, TAGS.
Matroska_from_seektable(f, table, st0) ==
  LET acc[i \in 0..Len(SectionIds)] ==
        IF i = 0 THEN st0
        ELSE Seek_section(f, table, acc[i - 1], SectionIds[i])
  IN  acc[Len(SectionIds)]

\* ... return Ok(matroska), or the first `?` or assert_eq! that fails.
OpenFromSeektable ==
  /\ pc = "sections"
  /\ \E st \in {Matroska_from_seektable(
                     file, seektable,
                     [ok |-> TRUE, matroska |-> matroska, cursor |-> cursor,
                      sought |-> <<>>])} :
       IF ~st.ok
       THEN /\ Return(st)
            /\ UNCHANGED <<matroska, cursor, log>>
       ELSE /\ Return([ok |-> TRUE, val |-> st.matroska])
            /\ matroska' = st.matroska
            /\ cursor' = st.cursor
            /\ log' = [log EXCEPT !.sought = st.sought]
  /\ UNCHANGED <<file, call, layout, id_0, size_0, segment_start, hdr,
                 seektable, table_size, prev>>

-----------------------------------------------------------------------------
(* get::<P>(file): the traversal of Matroska::open, returning the section  *)
(* P alone.  call.id is P::ID.                                             *)

\* let (mut id_0, mut size_0, _) = ebml::read_element_id_size(&mut file)?;
GetReadFirstHeader ==
  /\ pc = "get"
  /\ \E h \in {read_element_id_size(file, SourcePos(file, cursor))} :
       IF ~h.ok
       THEN /\ Return(h)
            /\ UNCHANGED <<cursor, id_0, size_0>>
       ELSE /\ id_0' = h.id
            /\ size_0' = h.size
            /\ cursor' = Advance(file, cursor, h.pos)
            /\ pc' = "get_top"
            /\ UNCHANGED outcome
  /\ UNCHANGED <<file, call, layout, segment_start, matroska, seektable,
                 table_size, hdr, log, prev>>

\* One iteration of `while id_0 != ids::SEGMENT`.
GetSkipTopLevel ==
  /\ pc = "get_top"
  /\ id_0 # ids.SEGMENT
  /\ \E s \in {SeekCurrent(cursor, size_0)} :
       IF ~s.ok
       THEN /\ Return(s)
            /\ UNCHANGED <<cursor, id_0, size_0>>
       ELSE \E h \in {read_element_id_size(file, SourcePos(file, s.val))} :
              IF ~h.ok
              THEN /\ Return(h)
                   /\ cursor' = s.val
                   /\ UNCHANGED <<id_0, size_0>>
              ELSE /\ id_0' = h.id
                   /\ size_0' = h.size
                   /\ cursor' = Advance(file, s.val, h.pos)
                   /\ UNCHANGED <<pc, outcome>>
  /\ UNCHANGED <<file, call, layout, segment_start, matroska, hdr, seektable,
                 table_size, log, prev>>

\* let segment_start = file.stream_position()?;
GetEnterSegment ==
  /\ pc = "get_top"
  /\ id_0 = ids.SEGMENT
  /\ segment_start' = cursor
  /\ pc' = "get_segment"
  /\ UNCHANGED <<file, call, outcome, layout, cursor, id_0, size_0, matroska,
                 hdr, seektable, table_size, log, prev>>

\* `while size_0 > 0` is left: Ok(None).
GetSegmentDone ==
  /\ pc = "get_segment"
  /\ size_0 = U64Zero
  /\ Return([ok |-> TRUE, val |-> None])
  /\ UNCHANGED <<file, call, navvars>>

\* let (id_1, size_1, len) = ebml::read_element_id_size(&mut file)?;
GetReadChild ==
  /\ pc = "get_segment"
  /\ size_0 # U64Zero
  /\ \E h \in {read_element_id_size(file, SourcePos(file, cursor))} :
       IF ~h.ok
       THEN /\ Return(h)
            /\ UNCHANGED <<cursor, hdr, log>>
       ELSE /\ hdr' = [id_1 |-> h.id, size_1 |-> h.size, len |-> h.len]
            /\ cursor' = Advance(file, cursor, h.pos)
            /\ log' = [log EXCEPT
                         !.scanned = Append(@, Logged("child", h.id, cursor))]
            /\ pc' = "get_child"
            /\ UNCHANGED outcome
  /\ UNCHANGED <<file, call, layout, id_0, size_0, segment_start, matroska,
                 seektable, table_size, prev>>

\* ids::SEEKHEAD => Seektable::parse(&mut file, segment_start, size_1) is
\* entered.
GetChildSeekHead ==
  /\ pc = "get_child"
  /\ hdr.id_1 = ids.SEEKHEAD
  /\ table_size' = hdr.size_1
  /\ seektable' = Seektable_new(segment_start)
  /\ log' = [log EXCEPT !.chain = @ \cup {cursor}]
  /\ pc' = "seektable"
  /\ UNCHANGED <<file, call, outcome, layout, cursor, id_0, size_0,
                 segment_start, matroska, hdr, prev>>

\* if let Some(pos) = seektable.get(P::ID)? { file.seek(SeekFrom::Start(pos))?;
\* let (i, s, _) = read_element_id_size(..)?; assert_eq!(i, P::ID);
\* return P::parse(&mut file, s).map(Some); }
Get_from_seektable(f, table, id) ==
  With(Seektable_get(table, id), LAMBDA g :
  IF ~g.ok THEN g
  ELSE IF g.val = None THEN [ok |-> TRUE, found |-> FALSE]
  ELSE With(read_element_id_size(f, SourcePos(f, g.val[1])), LAMBDA h :
  IF ~h.ok THEN h
  ELSE IF h.id # id THEN Panic("assert_eq!(i, P::ID)")
  ELSE With(Section_parse(id, f, h.pos, h.size), LAMBDA r :
  IF ~r.ok THEN r
  ELSE [ok |-> TRUE, found |-> TRUE, val |-> Some(r.val),
        cursor |-> Advance(f, g.val[1], r.pos),
        sought |-> <<Logged("section", id, g.val[1])>>])))

\* The SEEKHEAD arm after Seektable::parse has returned: the section is
\* returned from the table, or the arm is left and the loop goes on from
\* where the stream is: size_0 -= len; size_0 -= size_1.
GetFromSeektable ==
  /\ pc = "get_found"
  /\ \E st \in {Get_from_seektable(file, seektable, call.id)} :
       IF ~st.ok
       THEN /\ Return(st)
            /\ UNCHANGED <<cursor, size_0, log>>
       ELSE IF st.found
       THEN /\ Return([ok |-> TRUE, val |-> st.val])
            /\ cursor' = st.cursor
            /\ log' = [log EXCEPT !.sought = st.sought]
            /\ UNCHANGED size_0
       ELSE /\ \E d \in Decrement(size_0, hdr.len, hdr.size_1) :
                 IF d.ok
                 THEN size_0' = d.val /\ pc' = "get_segment"
                      /\ UNCHANGED outcome
                 ELSE Return(d) /\ UNCHANGED size_0
            /\ UNCHANGED <<cursor, log>>
  /\ UNCHANGED <<file, call, layout, id_0, segment_start, matroska, hdr,
                 seektable, table_size, prev>>

\* The arm of P::ID taken for the arm of any other child: the section is
\* skipped.
GetChildFound_skipping ==
  /\ pc = "get_child"
  /\ hdr.id_1 # ids.SEEKHEAD
  /\ hdr.id_1 = call.id
  /\ \E s \in {SeekCurrent(cursor, hdr.size_1)} :
       IF ~s.ok
       THEN Return(s) /\ UNCHANGED <<cursor, size_0>>
       ELSE /\ cursor' = s.val
            /\ \E d \in Decrement(size_0, hdr.len, hdr.size_1) :
                 IF d.ok
                 THEN size_0' = d.val /\ pc' = "get_segment" /\ UNCHANGED outcome
                 ELSE Return(d) /\ UNCHANGED size_0
  /\ UNCHANGED <<file, call, layout, id_0, segment_start, matroska, seektable,
                 table_size, hdr, log, prev>>

\* id if id == P::ID => return P::parse(&mut file, size_1).map(Some)
GetChildFound ==
  /\ pc = "get_child"
  /\ hdr.id_1 # ids.SEEKHEAD
  /\ hdr.id_1 = call.id
  /\ \E r \in {Section_parse(hdr.id_1, file, SourcePos(file, cursor),
                              hdr.size_1)} :
       IF ~r.ok
       THEN /\ Return(r)
            /\ UNCHANGED cursor
       ELSE /\ Return([ok |-> TRUE, val |-> Some(r.val)])
            /\ cursor' = Advance(file, cursor, r.pos)
  /\ UNCHANGED <<file, call, layout, id_0, size_0, segment_start, matroska,
                 seektable, table_size, hdr, log, prev>>

\* _ => file.seek(SeekFrom::Current(size_1 as i64)), then the decrement.
GetChildSkip ==
  /\ pc = "get_child"
  /\ hdr.id_1 # ids.SEEKHEAD
  /\ hdr.id_1 # call.id
  /\ \E s \in {SeekCurrent(cursor, hdr.size_1)} :
       IF ~s.ok
       THEN Return(s) /\ UNCHANGED <<cursor, size_0>>
       ELSE /\ cursor' = s.val
            /\ \E d \in Decrement(size_0, hdr.len, hdr.size_1) :
                 IF d.ok
                 THEN size_0' = d.val /\ pc' = "get_segment" /\ UNCHANGED outcome
                 ELSE Return(d) /\ UNCHANGED size_0
  /\ UNCHANGED <<file, call, layout, id_0, segment_start, matroska, seektable,
                 table_size, hdr, log, prev>>

-----------------------------------------------------------------------------
(* Sources.  A source is written from a layout: an EBML header, then a     *)
(* Segment whose children are the items of the layout, in order.  An item  *)
(* is a section, a Void element or a SeekHead; an entry of a SeekHead      *)
(* lists an ID and, as its position, the offset of the item it targets.    *)
(* Every size is written as a one-byte VINT.                               *)

MaxItems == 3

MaxSeekHeads == 2

MaxEntries == 3

MaxSeekEntries == 2

PlainKinds == {"InfoA", "InfoB", "Tracks", "Void", "BadInfo"}

EntryIds == {ids.INFO, ids.TRACKS, ids.SEEKHEAD}

\* The bytes of an element ID.
IdBytes(id) ==
  LET d == U32(id)
      first == CHOOSE i \in 1..4 : d[i] # 0 /\ \A j \in 1..(i - 1) : d[j] = 0
  IN  SubSeq(d, first, 4)

ElementBytes(id, body) == IdBytes(id) \o <<128 + Len(body)>> \o body

Flatten(seqs) ==
  LET acc[i \in 0..Len(seqs)] == IF i = 0 THEN <<>> ELSE acc[i - 1] \o seqs[i]
  IN  acc[Len(seqs)]

InfoBytes(title) == ElementBytes(ids.INFO, ElementBytes(ids.TITLE, <<title>>))

TracksBytes ==
  ElementBytes(ids.TRACKS,
    ElementBytes(ids.TRACKENTRY, ElementBytes(ids.TRACKNUMBER, <<1>>)))

VoidBytes == ElementBytes(ids.VOID, <<0>>)

\* An Info whose declared size is one less than the size of its one child.
BadInfoBytes ==
  IdBytes(ids.INFO) \o <<128 + 3>> \o ElementBytes(ids.TITLE, <<65>>)

SeekBytes(id, position) ==
  ElementBytes(ids.SEEK,
    ElementBytes(ids.SEEKID, IdBytes(id))
    \o ElementBytes(ids.SEEKPOSITION, <<position>>))

\* An element whose ID is in no classifier set and is no section.
UnknownBytes == ElementBytes(\H81, <<7>>)

\* An Info with such an element before its title.
InfoUBytes ==
  ElementBytes(ids.INFO,
    ElementBytes(\H4242, <<7>>) \o ElementBytes(ids.TITLE, <<65>>))

ItemLen(item) ==
  CASE item.kind = "SeekHead" -> 5 + 14 * Len(item.entries)
    [] item.kind = "Tracks" -> Len(TracksBytes)
    [] item.kind = "Void" -> Len(VoidBytes)
    [] item.kind = "Unknown" -> Len(UnknownBytes)
    [] item.kind = "InfoU" -> Len(InfoUBytes)
    [] OTHER -> Len(BadInfoBytes)

\* The offset of item i from the start of the Segment body.
Offset(items, i) ==
  LET acc[j \in 1..(Len(items) + 1)] ==
        IF j = 1 THEN 0 ELSE acc[j - 1] + ItemLen(items[j - 1])
  IN  acc[i]

ItemBytes(items, i) ==
  CASE items[i].kind = "InfoA" -> InfoBytes(65)
    [] items[i].kind = "InfoB" -> InfoBytes(66)
    [] items[i].kind = "Tracks" -> TracksBytes
    [] items[i].kind = "Void" -> VoidBytes
    [] items[i].kind = "BadInfo" -> BadInfoBytes
    [] items[i].kind = "Unknown" -> UnknownBytes
    [] items[i].kind = "InfoU" -> InfoUBytes
    [] items[i].kind = "SeekHead" ->
         ElementBytes(ids.SEEKHEAD,
           Flatten([k \in 1..Len(items[i].entries) |->
                      SeekBytes(items[i].entries[k].id,
                                Offset(items, items[i].entries[k].target))]))

EbmlHeaderBytes == ElementBytes(ids.EBML, <<\H42, \H86, \H81, \H01>>)

Encode(l) ==
  EbmlHeaderBytes
  \o IdBytes(ids.SEGMENT)
  \o <<128 + Offset(l.items, Len(l.items) + 1) + l.delta>>
  \o Flatten([i \in 1..Len(l.items) |-> ItemBytes(l.items, i)])

SeekHeadsOf(items) == {i \in 1..Len(items) : items[i].kind = "SeekHead"}

\* The kinds of the items of a layout: at most MaxSeekHeads SeekHeads.
Shapes ==
  UNION {{sh \in [1..n -> PlainKinds \cup {"SeekHead"}] :
            Cardinality({i \in 1..n : sh[i] = "SeekHead"}) <= MaxSeekHeads} :
         n \in 0..MaxItems}

EntryLists(n) ==
  UNION {[1..k -> [id : EntryIds, target : 1..n]] : k \in 0..MaxSeekEntries}

\* The layouts with the given kinds: at most MaxEntries entries in all.
ItemsOf(sh) ==
  LET heads == {i \in 1..Len(sh) : sh[i] = "SeekHead"}
      total(e) ==
        LET RECURSIVE Sum(_)
            Sum(S) == IF S = {} THEN 0
                      ELSE LET i == CHOOSE x \in S : TRUE
                           IN  Len(e[i]) + Sum(S \ {i})
        IN  Sum(heads)
  IN  {[i \in 1..Len(sh) |->
          [kind |-> sh[i], entries |-> IF i \in heads THEN e[i] ELSE <<>>]] :
       e \in {x \in [heads -> EntryLists(Len(sh))] : total(x) <= MaxEntries}}

\* A declared Segment size off by one is tried on the layouts without a
\* SeekHead.
DeltasOf(sh) ==
  IF \E i \in 1..Len(sh) : sh[i] = "SeekHead" THEN {0}
  ELSE IF sh = <<>> THEN {0, 1} ELSE {-1, 0, 1}

IsLayout(l) ==
  \E sh \in Shapes : l.items \in ItemsOf(sh) /\ l.delta \in DeltasOf(sh)

\* The layout with its SeekHeads left out: only inlined sections.
Inlined(l) ==
  LET keep == {i \in 1..Len(l.items) : l.items[i].kind # "SeekHead"}
      nth[k \in 1..Cardinality(keep)] ==
        CHOOSE i \in keep : Cardinality({j \in keep : j < i}) = k - 1
  IN  [items |-> [k \in 1..Cardinality(keep) |-> l.items[nth[k]]],
       delta |-> 0]

NoLayout == [items |-> <<>>, delta |-> 0]

NoHeader == [id_1 |-> 0, size_1 |-> U64Zero, len |-> 0]

NoLog == [scanned |-> <<>>, sought |-> <<>>, chain |-> {}]

\* The variables of Matroska::open before its first statement.
OpenEntered ==
  /\ pc = "open"
  /\ outcome = Pending
  /\ cursor = U64Zero
  /\ id_0 = 0
  /\ size_0 = U64Zero
  /\ segment_start = U64Zero
  /\ matroska = Matroska_new
  /\ hdr = NoHeader
  /\ seektable = Seektable_new(U64Zero)
  /\ table_size = U64Zero
  /\ log = NoLog

Init ==
  /\ \E sh \in Shapes : \E items \in ItemsOf(sh) : \E delta \in DeltasOf(sh) :
       layout = [items |-> items, delta |-> delta]
  /\ file = Encode(layout)
  /\ call = [fn |-> "open", run |-> 1]
  /\ prev = Pending
  /\ OpenEntered

\* After Matroska::open has returned a value for a source with a SeekHead
\* it is called on the same Segment with the SeekHeads left out.
OpenInlined ==
  /\ pc = "returned"
  /\ call = [fn |-> "open", run |-> 1]
  /\ outcome.ok
  /\ SeekHeadsOf(layout.items) # {}
  /\ prev' = outcome
  /\ file' = Encode(Inlined(layout))
  /\ call' = [fn |-> "open", run |-> 2]
  /\ pc' = "open"
  /\ outcome' = Pending
  /\ cursor' = U64Zero
  /\ id_0' = 0
  /\ size_0' = U64Zero
  /\ segment_start' = U64Zero
  /\ matroska' = Matroska_new
  /\ hdr' = NoHeader
  /\ seektable' = Seektable_new(U64Zero)
  /\ table_size' = U64Zero
  /\ log' = NoLog
  /\ UNCHANGED layout

Next ==
  \/ OpenReadFirstHeader
  \/ OpenSkipTopLevel
  \/ OpenEnterSegment
  \/ OpenSegmentDone
  \/ OpenReadChild
  \/ OpenChildSeekHead
  \/ OpenChildSection
  \/ OpenChildSkip
  \/ SeektableParseMaster
  \/ SeektableReturns
  \/ SeektableFollowsChain
  \/ OpenFromSeektable
  \/ OpenInlined

Spec == Init /\ [][Next]_vars

\* The sources of at most MaxCycleItems items.
MaxCycleItems == 2

InitCycle ==
  /\ \E sh \in {s \in Shapes : Len(s) <= MaxCycleItems} :
       \E items \in ItemsOf(sh) : \E delta \in DeltasOf(sh) :
         layout = [items |-> items, delta |-> delta]
  /\ file = Encode(layout)
  /\ call = [fn |-> "open", run |-> 1]
  /\ prev = Pending
  /\ OpenEntered

\* Every call runs on: no step that can be taken is put off forever.
FairSpec == InitCycle /\ [][Next]_vars /\ WF_vars(Next)

-----------------------------------------------------------------------------
(* The primitive decoders applied to bounded inputs.  An input is a first  *)
(* byte followed by up to MaxPrimLen - 1 bytes of a two-letter alphabet;   *)
(* the first bytes cover every VINT width, the all-zero byte included.     *)

MaxPrimLen == 8

PrimFirstBytes ==
  {\H00, \H01, \H02, \H04, \H08, \H10, \H1A, \H20, \H3F, \H40, \H81, \HFF}

PrimRestBytes == {\H00, \HA5}

PrimInputs ==
  {<<>>} \cup
  UNION {{<<b>> \o r : b \in PrimFirstBytes, r \in [1..n -> PrimRestBytes]} :
         n \in 0..(MaxPrimLen - 1)}

\* Declared widths above 8 whose low byte or low four bytes are a width
\* from 0 to 8; 260 has the low byte 4.
WideWidths == {U64(257), U64(512), <<0, 0, 0, 1, 0, 0, 0, 1>>, U64Max}

PrimCalls ==
  {[fn |-> "read_element_id"], [fn |-> "read_element_size"]}
  \cup {[fn |-> "read_uint", size |-> U64(w)] : w \in 0..9}
  \cup {[fn |-> "read_int", size |-> U64(w)] : w \in 0..9}
  \cup {[fn |-> "read_float", size |-> U64(w)] : w \in 0..9}
  \cup {[fn |-> fn, size |-> w] : fn \in {"read_uint", "read_int", "read_float"},
                                 w \in WideWidths \cup {U64(260)}}
  \cup {[fn |-> "read_date", size |-> U64(w)] : w \in 0..9}

\* The variables of the navigator while another function is run.
NavIdle ==
  /\ layout = NoLayout
  /\ cursor = U64Zero
  /\ id_0 = 0
  /\ size_0 = U64Zero
  /\ segment_start = U64Zero
  /\ matroska = Matroska_new
  /\ hdr = NoHeader
  /\ seektable = Seektable_new(U64Zero)
  /\ table_size = U64Zero
  /\ log = NoLog
  /\ prev = Pending

InitPrim ==
  /\ file \in PrimInputs
  /\ call \in PrimCalls
  /\ pc = "prim"
  /\ outcome = Pending
  /\ NavIdle

PrimReadElementId ==
  /\ pc = "prim" /\ call.fn = "read_element_id"
  /\ outcome' = read_element_id(file, 0)
  /\ pc' = "returned"
  /\ UNCHANGED <<file, call, navvars>>

PrimReadElementSize ==
  /\ pc = "prim" /\ call.fn = "read_element_size"
  /\ outcome' = read_element_size(file, 0)
  /\ pc' = "returned"
  /\ UNCHANGED <<file, call, navvars>>

PrimReadUint ==
  /\ pc = "prim" /\ call.fn = "read_uint"
  /\ outcome' = read_uint(file, 0, call.size)
  /\ pc' = "returned"
  /\ UNCHANGED <<file, call, navvars>>

PrimReadInt ==
  /\ pc = "prim" /\ call.fn = "read_int"
  /\ outcome' = read_int(file, 0, call.size)
  /\ pc' = "returned"
  /\ UNCHANGED <<file, call, navvars>>

PrimReadDate ==
  /\ pc = "prim" /\ call.fn = "read_date"
  /\ outcome' = read_date(file, 0, call.size)
  /\ pc' = "returned"
  /\ UNCHANGED <<file, call, navvars>>

PrimReadFloat ==
  /\ pc = "prim" /\ call.fn = "read_float"
  /\ outcome' = read_float(file, 0, call.size)
  /\ pc' = "returned"
  /\ UNCHANGED <<file, call, navvars>>

NextPrim ==
  \/ PrimReadElementId
  \/ PrimReadElementSize
  \/ PrimReadUint
  \/ PrimReadInt
  \/ PrimReadDate
  \/ PrimReadFloat

SpecPrim == InitPrim /\ [][NextPrim]_vars

-----------------------------------------------------------------------------
(* Element::parse_master applied to bounded inputs: up to MaxChildren      *)
(* elements written one after the other, and a size from 0 to one more     *)
(* than their length.                                                      *)

MaxChildren == 3

TreeElements ==
  {ElementBytes(ids.TRACKNUMBER, <<1>>),
   ElementBytes(ids.TITLE, <<65>>),
   <<\HEC, \H80>>,
   <<\HEC, \H40, \H01, \H00>>,
   ElementBytes(ids.TRACKENTRY, ElementBytes(ids.TRACKNUMBER, <<1>>)),
   IdBytes(ids.TRACKENTRY) \o <<128 + 2>> \o ElementBytes(ids.TRACKNUMBER, <<1>>)}

InitTree ==
  /\ \E n \in 0..MaxChildren : \E es \in [1..n -> TreeElements] :
       file = Flatten(es)
  /\ \E n \in 0..(Len(file) + 1) : call = [fn |-> "parse_master", size |-> U64(n)]
  /\ pc = "tree"
  /\ outcome = Pending
  /\ NavIdle

TreeParseMaster ==
  /\ pc = "tree" /\ call.fn = "parse_master"
  /\ outcome' = parse_master(file, 0, call.size)
  /\ pc' = "returned"
  /\ UNCHANGED <<file, call, navvars>>

NextTree == TreeParseMaster

SpecTree == InitTree /\ [][NextTree]_vars

-----------------------------------------------------------------------------
(* Element::parse applied to bounded inputs: one element of every kind of  *)
(* body, with an ID of no classifier set, or a master of up to MaxNested   *)
(* such children and inner masters; whole, followed by another byte, or    *)
(* with its last byte cut off.                                             *)

MaxNested == 2

LeafElements ==
  {ElementBytes(\HFB, <<\HFF, 1>>),
   ElementBytes(ids.TRACKNUMBER, <<1>>),
   ElementBytes(\H86, <<65>>),
   ElementBytes(ids.TITLE, <<65>>),
   ElementBytes(ids.VOID, <<0>>),
   ElementBytes(ids.DURATION, <<\H44, \H7D, \HC0, 0>>),
   ElementBytes(ids.DATEUTC, <<\HFF, 0, 0, 0, 0, 0, 0, 1>>),
   ElementBytes(\H81, <<7>>),
   ElementBytes(\H81, <<>>),
   <<\H81, \H40, \H01, 9>>,
   ElementBytes(\H1F43B676, <<7, 8>>)}

NestedElements ==
  LeafElements
  \cup {ElementBytes(ids.VIDEO, <<>>),
        ElementBytes(ids.VIDEO, ElementBytes(\H81, <<7>>))}

InitElement ==
  /\ \E e \in LeafElements
            \cup UNION {{ElementBytes(ids.TRACKENTRY, Flatten(es)) :
                           es \in [1..n -> NestedElements]} : n \in 0..MaxNested} :
       \/ file = e /\ call = [fn |-> "parse", whole |-> TRUE]
       \/ file = e \o <<\HEC>> /\ call = [fn |-> "parse", whole |-> TRUE]
       \/ file = SubSeq(e, 1, Len(e) - 1) /\ call = [fn |-> "parse", whole |-> FALSE]
  /\ pc = "element"
  /\ outcome = Pending
  /\ NavIdle

ElementParse ==
  /\ pc = "element" /\ call.fn = "parse"
  /\ outcome' = parse(file, 0)
  /\ pc' = "returned"
  /\ UNCHANGED <<file, call, navvars>>

NextElement == ElementParse

SpecElement == InitElement /\ [][NextElement]_vars

-----------------------------------------------------------------------------
(* Track::build_entry, ChapterDisplay::build and SimpleTag::build_entry    *)
(* applied to the children parsed from the body of a TrackEntry, a         *)
(* ChapterDisplay or a SimpleTag: up to MaxLangChildren children, each an  *)
(* ISO-639 language, an IETF language or a name.                           *)

MaxLangChildren == 3

LangRecords == {"Track", "ChapterDisplay", "SimpleTag"}

LangChildren ==
  [kind : {"ISO", "IETF"}, s : {<<101>>, <<102>>}]
  \cup {[kind |-> "Other", s |-> <<65>>]}

LangIds(record) ==
  CASE record = "Track" ->
         [ISO |-> ids.LANGUAGE, IETF |-> ids.LANGUAGE_IETF, Other |-> ids.NAME]
    [] record = "ChapterDisplay" ->
         [ISO |-> ids.CHAPLANGUAGE, IETF |-> ids.CHAPLANGUAGE_IETF,
          Other |-> ids.CHAPSTRING]
    [] record = "SimpleTag" ->
         [ISO |-> ids.TAGLANGUAGE, IETF |-> ids.TAGLANGUAGE_IETF,
          Other |-> ids.TAGNAME]

LangBytes(record, items) ==
  Flatten([i \in 1..Len(items) |->
             ElementBytes(LangIds(record)[items[i].kind], items[i].s)])

InitLang ==
  /\ \E n \in 0..MaxLangChildren : \E items \in [1..n -> LangChildren] :
       layout = [items |-> items, delta |-> 0]
  /\ \E record \in LangRecords : call = [fn |-> "build", record |-> record]
  /\ file = LangBytes(call.record, layout.items)
  /\ pc = "build"
  /\ outcome = Pending
  /\ prev = Pending
  /\ cursor = U64Zero
  /\ id_0 = 0
  /\ size_0 = U64Zero
  /\ segment_start = U64Zero
  /\ matroska = Matroska_new
  /\ hdr = NoHeader
  /\ seektable = Seektable_new(U64Zero)
  /\ table_size = U64Zero
  /\ log = NoLog

Record_build(record, elements) ==
  CASE record = "Track" -> Track_build_entry(elements)
    [] record = "ChapterDisplay" -> ChapterDisplay_build(elements)
    [] record = "SimpleTag" -> SimpleTag_build_entry(elements)
    [] record = "Seek" -> Seek_build(elements)
    [] record = "Info" -> Info_build(elements)
    [] record = "Video" -> Video_build(elements)
    [] record = "Audio" -> Audio_build(elements)
    [] record = "Attachment" -> Attachment_build_entry(elements)
    [] record = "ChapterEdition" -> ChapterEdition_build_entry(elements)
    [] record = "Chapter" -> Chapter_build(elements)
    [] record = "Tag" -> Tag_build_entry(elements)
    [] record = "Target" -> Target_build_entry(elements)

\* The record built from the children Element::parse_master returns.
LangBuild ==
  /\ pc = "build" /\ call.fn = "build"
  /\ \E r \in {parse_master(file, 0, U64(Len(file)))} :
       outcome' = IF ~r.ok THEN r
                  ELSE [ok |-> TRUE, val |-> Record_build(call.record, r.val)]
  /\ pc' = "returned"
  /\ UNCHANGED <<file, call, navvars>>

NextLang == LangBuild

SpecLang == InitLang /\ [][NextLang]_vars

-----------------------------------------------------------------------------
(* Info::parse applied to the body of an Info element of up to             *)
(* MaxInfoChildren children: a Duration (1015.0 as a 4-byte or an 8-byte   *)
(* float, 0.5 or 1.5), a TimecodeScale (1,000,000, 2,000,000 or 1) or a    *)
(* Title.                                                                  *)

MaxInfoChildren == 3

InfoChildren ==
  {[kind |-> "Duration", num |-> 1015, den |-> 1,
    bytes |-> ElementBytes(ids.DURATION, <<\H44, \H7D, \HC0, 0>>)],
   [kind |-> "Duration", num |-> 1015, den |-> 1,
    bytes |-> ElementBytes(ids.DURATION, <<\H40, \H8F, \HB8, 0, 0, 0, 0, 0>>)],
   [kind |-> "Duration", num |-> 1, den |-> 2,
    bytes |-> ElementBytes(ids.DURATION, <<\H3F, 0, 0, 0>>)],
   [kind |-> "Duration", num |-> 3, den |-> 2,
    bytes |-> ElementBytes(ids.DURATION, <<\H3F, \HC0, 0, 0>>)],
   [kind |-> "Scale", scale |-> 1000000,
    bytes |-> ElementBytes(ids.TIMECODESCALE, <<\H0F, \H42, \H40>>)],
   [kind |-> "Scale", scale |-> 2000000,
    bytes |-> ElementBytes(ids.TIMECODESCALE, <<\H1E, \H84, \H80>>)],
   [kind |-> "Scale", scale |-> 1,
    bytes |-> ElementBytes(ids.TIMECODESCALE, <<1>>)],
   [kind |-> "Title", bytes |-> ElementBytes(ids.TITLE, <<65>>)]}

InitInfo ==
  /\ \E n \in 0..MaxInfoChildren : \E items \in [1..n -> InfoChildren] :
       layout = [items |-> items, delta |-> 0]
  /\ call = [fn |-> "Info::parse"]
  /\ file = Flatten([i \in 1..Len(layout.items) |-> layout.items[i].bytes])
  /\ pc = "info"
  /\ outcome = Pending
  /\ prev = Pending
  /\ cursor = U64Zero
  /\ id_0 = 0
  /\ size_0 = U64Zero
  /\ segment_start = U64Zero
  /\ matroska = Matroska_new
  /\ hdr = NoHeader
  /\ seektable = Seektable_new(U64Zero)
  /\ table_size = U64Zero
  /\ log = NoLog

InfoParse ==
  /\ pc = "info" /\ call.fn = "Info::parse"
  /\ outcome' = Info_parse(file, 0, U64(Len(file)))
  /\ pc' = "returned"
  /\ UNCHANGED <<file, call, navvars>>

NextInfo == InfoParse

SpecInfo == InitInfo /\ [][NextInfo]_vars

-----------------------------------------------------------------------------
(* Seektable::get applied to a table of up to MaxSeekIds entries whose     *)
(* offset and positions are small, in the middle of the range of a u64,    *)
(* or at its end.                                                          *)

MaxSeekIds == 2

SeekWords ==
  {U64Zero, U64(14), <<0, 0, 0, 1, 0, 0, 0, 0>>, <<128, 0, 0, 0, 0, 0, 0, 0>>,
   <<255, 255, 255, 255, 255, 255, 255, 242>>, U64Max}

SeekIds == <<ids.INFO, ids.TRACKS, ids.TAGS, ids.CHAPTERS, ids.ATTACHMENTS>>

InitSeek ==
  /\ \E offset \in SeekWords :
     \E n \in 0..MaxSeekIds :
     \E listed \in SUBSET {U32(SeekIds[i]) : i \in 1..n} :
     \E seek \in [listed -> SeekWords] :
       seektable = [offset |-> offset, seek |-> seek]
  /\ \E i \in 1..(MaxSeekIds + 1) : call = [fn |-> "Seektable::get", id |-> SeekIds[i]]
  /\ pc = "seek"
  /\ outcome = Pending
  /\ prev = Pending
  /\ file = <<>>
  /\ layout = NoLayout
  /\ cursor = U64Zero
  /\ id_0 = 0
  /\ size_0 = U64Zero
  /\ segment_start = seektable.offset
  /\ matroska = Matroska_new
  /\ hdr = NoHeader
  /\ table_size = U64Zero
  /\ log = NoLog

SeektableGet ==
  /\ pc = "seek" /\ call.fn = "Seektable::get"
  /\ outcome' = Seektable_get(seektable, call.id)
  /\ pc' = "returned"
  /\ UNCHANGED <<file, call, navvars>>

NextSeek == SeektableGet

SpecSeek == InitSeek /\ [][NextSeek]_vars

-----------------------------------------------------------------------------
(* The calls of the library on one source: Matroska::open, get::<P> and    *)
(* Element::parse.  The sources of open and get have at most MaxApiItems   *)
(* items, among them elements of unknown ID; a call records the build of   *)
(* the process (with or without overflow checks).  After a call has        *)
(* returned, Matroska::open is called on the same source.                  *)

MaxApiItems == 2

ApiKinds == PlainKinds \cup {"Unknown", "InfoU"}

ApiShapes ==
  UNION {{sh \in [1..n -> ApiKinds \cup {"SeekHead"}] :
            Cardinality({i \in 1..n : sh[i] = "SeekHead"}) <= MaxSeekHeads} :
         n \in 0..MaxApiItems}

ApiCalls ==
  {[fn |-> "open", first |-> "open", id |-> 0, run |-> 1, checks |-> b] :
     b \in BOOLEAN}
  \cup {[fn |-> "get", first |-> "get", id |-> id, run |-> 1, checks |-> b] :
          id \in {ids.INFO, ids.TRACKS}, b \in BOOLEAN}

InitApi ==
  \/ /\ \E sh \in ApiShapes : \E items \in ItemsOf(sh) :
         \E delta \in DeltasOf(sh) :
           layout = [items |-> items, delta |-> delta]
     /\ file = Encode(layout)
     /\ call \in ApiCalls
     /\ prev = Pending
     /\ outcome = Pending
     /\ cursor = U64Zero
     /\ id_0 = 0
     /\ size_0 = U64Zero
     /\ segment_start = U64Zero
     /\ matroska = Matroska_new
     /\ hdr = NoHeader
     /\ seektable = Seektable_new(U64Zero)
     /\ table_size = U64Zero
     /\ log = NoLog
     /\ pc = call.fn
  \/ InitElement

\* Matroska::open called again on the handle the first call has read from,
\* left where that call left it.
OpenAgain_same_handle ==
  /\ pc = "returned"
  /\ call.fn \in {"open", "get"}
  /\ call.run = 1
  /\ prev' = outcome
  /\ call' = [call EXCEPT !.fn = "open", !.run = 2]
  /\ pc' = "open"
  /\ outcome' = Pending
  /\ id_0' = 0
  /\ size_0' = U64Zero
  /\ segment_start' = U64Zero
  /\ matroska' = Matroska_new
  /\ hdr' = NoHeader
  /\ seektable' = Seektable_new(U64Zero)
  /\ table_size' = U64Zero
  /\ log' = NoLog
  /\ UNCHANGED <<file, layout, cursor>>

\* matroska::Matroska::open(f) on a second handle of the source a call has
\* returned from: the locals of open before its first statement.
OpenAgain ==
  /\ pc = "returned"
  /\ call.fn \in {"open", "get"}
  /\ call.run = 1
  /\ prev' = outcome
  /\ call' = [call EXCEPT !.fn = "open", !.run = 2]
  /\ pc' = "open"
  /\ outcome' = Pending
  /\ cursor' = U64Zero
  /\ id_0' = 0
  /\ size_0' = U64Zero
  /\ segment_start' = U64Zero
  /\ matroska' = Matroska_new
  /\ hdr' = NoHeader
  /\ seektable' = Seektable_new(U64Zero)
  /\ table_size' = U64Zero
  /\ log' = NoLog
  /\ UNCHANGED <<file, layout>>

NextApi ==
  \/ OpenReadFirstHeader
  \/ OpenSkipTopLevel
  \/ OpenEnterSegment
  \/ OpenSegmentDone
  \/ OpenReadChild
  \/ OpenChildSeekHead
  \/ OpenChildSection
  \/ OpenChildSkip
  \/ SeektableParseMaster
  \/ SeektableReturns
  \/ SeektableFollowsChain
  \/ OpenFromSeektable
  \/ GetReadFirstHeader
  \/ GetSkipTopLevel
  \/ GetEnterSegment
  \/ GetSegmentDone
  \/ GetReadChild
  \/ GetChildSeekHead
  \/ GetFromSeektable
  \/ GetChildFound
  \/ GetChildSkip
  \/ OpenAgain
  \/ ElementParse

SpecApi == InitApi /\ [][NextApi]_vars

-----------------------------------------------------------------------------
(* Matroska::open and get::<P> applied to sources of elements that are     *)
(* skipped: up to MaxSkipItems top-level elements, then no Segment, or a   *)
(* Segment of up to MaxSkipItems children whose declared size is the       *)
(* length of what follows or 2^56 - 1.  The sizes are written in one, two  *)
(* or eight bytes and go up to 2^56 - 1; the body of an element of a small *)
(* size is whole, that of an element of a large size is not there.         *)

MaxSkipItems == 2

\* 2^55 and 2^56 - 1.
Pow55 == <<0, 128, 0, 0, 0, 0, 0, 0>>

AllOnes56 == <<0, 255, 255, 255, 255, 255, 255, 255>>

\* An element as written (bytes), with its ID, the length of its header
\* and the size it declares.
SkipElements ==
  {[bytes |-> <<\HEC, \H80>>, id |-> \HEC, len |-> 2, size |-> U64(0)],
   [bytes |-> <<\HEC, \H81, 0>>, id |-> \HEC, len |-> 2, size |-> U64(1)],
   [bytes |-> <<\H81, \H40, 2, 0, 0>>, id |-> \H81, len |-> 3, size |-> U64(2)],
   [bytes |-> <<\HEC, 1, 0, 0, 0, 0, 0, 0, 1, 7>>, id |-> \HEC, len |-> 9,
    size |-> U64(1)],
   [bytes |-> EbmlHeaderBytes, id |-> ids.EBML, len |-> 5, size |-> U64(4)],
   [bytes |-> <<\HEC, 1, \H80, 0, 0, 0, 0, 0, 0>>, id |-> \HEC, len |-> 9,
    size |-> Pow55],
   [bytes |-> <<\H81, 1, 255, 255, 255, 255, 255, 255, 255>>, id |-> \H81,
    len |-> 9, size |-> AllOnes56],
   [bytes |-> <<\HEC, \HFF>> \o [i \in 1..127 |-> 0], id |-> \HEC, len |-> 2,
    size |-> U64(127)]}

SkipLists ==
  UNION {[1..n -> SkipElements] : n \in 0..MaxSkipItems}

SkipBytes(items) == Flatten([i \in 1..Len(items) |-> items[i].bytes])

\* The Segment of a layout as an element: its header and the size it
\* declares.
SegmentElement(l) ==
  IF l.segment = "exact" /\ Len(SkipBytes(l.children)) < 127
  THEN [bytes |-> IdBytes(ids.SEGMENT) \o <<128 + Len(SkipBytes(l.children))>>,
        id |-> ids.SEGMENT, len |-> 5,
        size |-> U64(Len(SkipBytes(l.children)))]
  ELSE IF l.segment = "exact"
  THEN [bytes |-> IdBytes(ids.SEGMENT)
                  \o <<64 + Len(SkipBytes(l.children)) \div 256,
                       Len(SkipBytes(l.children)) % 256>>,
        id |-> ids.SEGMENT, len |-> 6,
        size |-> U64(Len(SkipBytes(l.children)))]
  ELSE [bytes |-> IdBytes(ids.SEGMENT) \o <<1, 255, 255, 255, 255, 255, 255, 255>>,
        id |-> ids.SEGMENT, len |-> 12, size |-> AllOnes56]

SkipSource(l) ==
  SkipBytes(l.items)
  \o (IF l.segment = "none" THEN <<>>
      ELSE SegmentElement(l).bytes \o SkipBytes(l.children))

SkipCalls ==
  {[fn |-> "open", id |-> 0, checks |-> b] : b \in BOOLEAN}
  \cup {[fn |-> "get", id |-> ids.INFO, checks |-> b] : b \in BOOLEAN}

InitSkip ==
  /\ \E items \in SkipLists :
     \E segment \in {"none", "exact", "open"} :
     \E children \in IF segment = "none" THEN {<<>>} ELSE SkipLists :
       layout = [items |-> items, delta |-> 0, segment |-> segment,
                 children |-> children]
  /\ file = SkipSource(layout)
  /\ call \in SkipCalls
  /\ prev = Pending
  /\ outcome = Pending
  /\ cursor = U64Zero
  /\ id_0 = 0
  /\ size_0 = U64Zero
  /\ segment_start = U64Zero
  /\ matroska = Matroska_new
  /\ hdr = NoHeader
  /\ seektable = Seektable_new(U64Zero)
  /\ table_size = U64Zero
  /\ log = NoLog
  /\ pc = call.fn

NextSkip ==
  \/ OpenReadFirstHeader
  \/ OpenSkipTopLevel
  \/ OpenEnterSegment
  \/ OpenSegmentDone
  \/ OpenReadChild
  \/ OpenChildSkip
  \/ GetReadFirstHeader
  \/ GetSkipTopLevel
  \/ GetEnterSegment
  \/ GetSegmentDone
  \/ GetReadChild
  \/ GetChildSkip

SpecSkip == InitSkip /\ [][NextSkip]_vars

-----------------------------------------------------------------------------
(* The record builders applied to a list of children as Element::parse     *)
(* returns them: up to MaxBuildChildren children, each one a child the     *)
(* builder has an arm for, an ID of the builder with a value of another    *)
(* kind, or an ID the builder has no arm for.                              *)

MaxBuildChildren == 2

Builders ==
  {"Info", "Track", "Video", "Audio", "Attachment", "ChapterEdition",
   "Chapter", "ChapterDisplay", "Tag", "Target", "SimpleTag", "Seek"}

ValueKinds ==
  {"Master", "Int", "UInt", "String", "UTF8", "Binary", "Float", "Date"}

\* The arms of the match of each builder: the ID and the kind of value of
\* the children it takes.
Arms(builder) ==
  CASE builder = "Seek" ->
         {<<ids.SEEKID, "Binary">>, <<ids.SEEKPOSITION, "UInt">>}
    [] builder = "Info" ->
         {<<ids.SEGMENTUID, "Binary">>, <<ids.PREVUID, "Binary">>,
          <<ids.NEXTUID, "Binary">>, <<ids.SEGMENTFAMILY, "Binary">>,
          <<ids.TITLE, "UTF8">>, <<ids.TIMECODESCALE, "UInt">>,
          <<ids.DURATION, "Float">>, <<ids.DATEUTC, "Date">>,
          <<ids.MUXINGAPP, "UTF8">>, <<ids.WRITINGAPP, "UTF8">>}
    [] builder = "Track" ->
         {<<ids.TRACKNUMBER, "UInt">>, <<ids.TRACKUID, "UInt">>,
          <<ids.TRACKTYPE, "UInt">>, <<ids.FLAGENABLED, "UInt">>,
          <<ids.FLAGDEFAULT, "UInt">>, <<ids.FLAGFORCED, "UInt">>,
          <<ids.FLAGHEARINGIMPAIRED, "Binary">>,
          <<ids.FLAGHEARINGIMPAIRED, "UInt">>,
          <<ids.FLAGVISUALIMPAIRED, "Binary">>,
          <<ids.FLAGVISUALIMPAIRED, "UInt">>,
          <<ids.FLAGTEXTDESCRIPTIONS, "Binary">>,
          <<ids.FLAGTEXTDESCRIPTIONS, "UInt">>,
          <<ids.FLAGORIGINAL, "Binary">>, <<ids.FLAGORIGINAL, "UInt">>,
          <<ids.FLAGCOMMENTARY, "Binary">>, <<ids.FLAGCOMMENTARY, "UInt">>,
          <<ids.FLAGLACING, "UInt">>, <<ids.DEFAULTDURATION, "UInt">>,
          <<ids.NAME, "UTF8">>, <<ids.LANGUAGE, "String">>,
          <<ids.LANGUAGE_IETF, "String">>, <<ids.CODEC_ID, "String">>,
          <<ids.CODEC_PRIVATE, "Binary">>, <<ids.CODEC_NAME, "UTF8">>,
          <<ids.VIDEO, "Master">>, <<ids.AUDIO, "Master">>}
    [] builder = "Video" ->
         {<<ids.PIXELWIDTH, "UInt">>, <<ids.PIXELHEIGHT, "UInt">>,
          <<ids.DISPLAYWIDTH, "UInt">>, <<ids.DISPLAYHEIGHT, "UInt">>,
          <<ids.INTERLACED, "UInt">>, <<ids.GAMMA, "Float">>,
          <<ids.STEREOMODE, "UInt">>}
    [] builder = "Audio" ->
         {<<ids.SAMPLINGFREQUENCY, "Float">>, <<ids.CHANNELS, "UInt">>,
          <<ids.BITDEPTH, "UInt">>}
    [] builder = "Attachment" ->
         {<<ids.FILEDESCRIPTION, "UTF8">>, <<ids.FILENAME, "UTF8">>,
          <<ids.FILEMIMETYPE, "String">>, <<ids.FILEDATA, "Binary">>}
    [] builder = "ChapterEdition" ->
         {<<ids.EDITIONUID, "UInt">>, <<ids.EDITIONFLAGHIDDEN, "UInt">>,
          <<ids.EDITIONFLAGDEFAULT, "UInt">>,
          <<ids.EDITIONFLAGORDERED, "UInt">>, <<ids.CHAPTERATOM, "Master">>}
    [] builder = "Chapter" ->
         {<<ids.CHAPTERUID, "UInt">>, <<ids.CHAPTERTIMESTART, "UInt">>,
          <<ids.CHAPTERTIMEEND, "UInt">>, <<ids.CHAPTERFLAGHIDDEN, "UInt">>,
          <<ids.CHAPTERFLAGENABLED, "UInt">>,
          <<ids.CHAPTERSEGMENTUID, "Binary">>,
          <<ids.CHAPTERSEGMENTEDITIONUID, "UInt">>,
          <<ids.CHAPTERDISPLAY, "Master">>}
    [] builder = "ChapterDisplay" ->
         {<<ids.CHAPSTRING, "UTF8">>, <<ids.CHAPLANGUAGE, "String">>,
          <<ids.CHAPLANGUAGE_IETF, "String">>}
    [] builder = "Tag" ->
         {<<ids.TARGETS, "Master">>, <<ids.SIMPLETAG, "Master">>}
    [] builder = "Target" ->
         {<<ids.TARGETTYPEVALUE, "UInt">>, <<ids.TARGETTYPE, "String">>,
          <<ids.TAG_TRACK_UID, "UInt">>, <<ids.TAG_EDITION_UID, "UInt">>,
          <<ids.TAG_CHAPTER_UID, "UInt">>, <<ids.TAG_ATTACHMENT_UID, "UInt">>}
    [] builder = "SimpleTag" ->
         {<<ids.TAGNAME, "UTF8">>, <<ids.TAGLANGUAGE, "String">>,
          <<ids.TAGLANGUAGE_IETF, "String">>, <<ids.TAGDEFAULT, "UInt">>,
          <<ids.TAGSTRING, "UTF8">>, <<ids.TAGBINARY, "Binary">>}

\* The record each builder starts from.
Default(builder) ==
  CASE builder = "Seek" -> Seek_new
    [] builder = "Info" -> Info_new
    [] builder = "Track" -> Track_new
    [] builder = "Video" -> Video_new
    [] builder = "Audio" -> Audio_new
    [] builder = "Attachment" -> Attachment_new
    [] builder = "ChapterEdition" -> ChapterEdition_new
    [] builder = "Chapter" -> Chapter_new
    [] builder = "ChapterDisplay" -> ChapterDisplay_new
    [] builder = "Tag" -> Tag_new
    [] builder = "Target" -> Target_new
    [] builder = "SimpleTag" -> SimpleTag_new

\* An ID no builder has an arm for.
StrangerId == \H81

\* One value of each kind: the number 2, the float 1.5, the text "e", the
\* byte 01, two nanoseconds after the start of 2001, and a master with one
\* child no builder takes.
SampleValue(kind) ==
  CASE kind \in {"Int", "UInt"} -> U64(2)
    [] kind = "Float" -> <<63, 248, 0, 0, 0, 0, 0, 0>>
    [] kind \in {"String", "UTF8"} -> <<101>>
    [] kind = "Binary" -> <<1>>
    [] kind = "Date" -> DateTimeFrom2001(U64(2))
    [] kind = "Master" ->
         <<[id |-> StrangerId, size |-> U64(3),
            val |-> [kind |-> "Binary", v |-> <<1>>]]>>

SampleElement(id, kind) ==
  [id |-> id, size |-> U64(3),
   val |-> [kind |-> kind, v |-> SampleValue(kind)]]

\* The children a builder is given, each by its ID and the kind of its value.
BuildChildren(builder) ==
  {<<a[1], kind>> : a \in Arms(builder), kind \in ValueKinds}
  \cup ({StrangerId, ids.VOID} \X {"Binary", "UInt"})

SampleElements(items) ==
  [i \in 1..Len(items) |-> SampleElement(items[i][1], items[i][2])]

InitBuild ==
  /\ call \in {[fn |-> "build_entry", record |-> b] : b \in Builders}
  /\ \E n \in 0..MaxBuildChildren :
     \E items \in [1..n -> BuildChildren(call.record)] :
       layout = [items |-> items, delta |-> 0]
  /\ file = <<>>
  /\ pc = "build"
  /\ outcome = Pending
  /\ prev = Pending
  /\ cursor = U64Zero
  /\ id_0 = 0
  /\ size_0 = U64Zero
  /\ segment_start = U64Zero
  /\ matroska = Matroska_new
  /\ hdr = NoHeader
  /\ seektable = Seektable_new(U64Zero)
  /\ table_size = U64Zero
  /\ log = NoLog

\* The builder on the children: no builder returns a Result.
BuildEntry ==
  /\ pc = "build" /\ call.fn = "build_entry"
  /\ outcome' = [ok |-> TRUE,
                  val |-> Record_build(call.record,
                                       SampleElements(layout.items))]
  /\ pc' = "returned"
  /\ UNCHANGED <<file, call, navvars>>

NextBuild == BuildEntry

SpecBuild == InitBuild /\ [][NextBuild]_vars

-----------------------------------------------------------------------------
(* Matroska::open and get::<Info> applied to sources whose Segment starts  *)
(* with a SeekHead of one entry with a position of eight bytes: the        *)
(* position of the child after it, or one of the last MaxChainBack values  *)
(* of a u64.  Before the Segment there is an EBML header, an empty         *)
(* SeekHead, or both; after the SeekHead of the Segment there is nothing,  *)
(* an empty SeekHead, an Info or a Void element.                           *)

MaxChainBack == 19

EmptySeekHeadBytes == ElementBytes(ids.SEEKHEAD, <<>>)

ChainPrefixBytes(prefix) ==
  CASE prefix = "ebml" -> EbmlHeaderBytes
    [] prefix = "seekhead" -> EmptySeekHeadBytes
    [] prefix = "both" -> EbmlHeaderBytes \o EmptySeekHeadBytes

ChainTailBytes(tail) ==
  CASE tail = "none" -> <<>>
    [] tail = "seekhead" -> EmptySeekHeadBytes
    [] tail = "info" -> InfoBytes(65)
    [] tail = "void" -> VoidBytes

\* A SeekHead of one Seek whose SeekPosition is written in eight bytes.
WideSeekHeadBytes(entry) ==
  ElementBytes(ids.SEEKHEAD,
    ElementBytes(ids.SEEK,
      ElementBytes(ids.SEEKID, IdBytes(entry.id))
      \o ElementBytes(ids.SEEKPOSITION, entry.position)))

\* The position of the child after such a SeekHead, counted from the start
\* of the body of the Segment.
AfterWideSeekHead ==
  Len(WideSeekHeadBytes([id |-> ids.SEEKHEAD, position |-> U64Zero]))

ChainPositions ==
  {U64(AfterWideSeekHead)}
  \cup {U64Sub(U64Zero, U64(k)).w : k \in 1..MaxChainBack}

ChainSource(l) ==
  ChainPrefixBytes(l.prefix)
  \o ElementBytes(ids.SEGMENT,
                  WideSeekHeadBytes(l.entry) \o ChainTailBytes(l.tail))

ChainCalls ==
  {[fn |-> "open", id |-> 0, checks |-> b] : b \in BOOLEAN}
  \cup {[fn |-> "get", id |-> ids.INFO, checks |-> b] : b \in BOOLEAN}

InitChain ==
  /\ \E prefix \in {"ebml", "seekhead", "both"} :
     \E id \in {ids.SEEKHEAD, ids.INFO, ids.TRACKS} :
     \E position \in ChainPositions :
     \E tail \in {"none", "seekhead", "info", "void"} :
       layout = [items |-> <<>>, delta |-> 0, prefix |-> prefix,
                 entry |-> [id |-> id, position |-> position], tail |-> tail]
  /\ file = ChainSource(layout)
  /\ call \in ChainCalls
  /\ prev = Pending
  /\ outcome = Pending
  /\ cursor = U64Zero
  /\ id_0 = 0
  /\ size_0 = U64Zero
  /\ segment_start = U64Zero
  /\ matroska = Matroska_new
  /\ hdr = NoHeader
  /\ seektable = Seektable_new(U64Zero)
  /\ table_size = U64Zero
  /\ log = NoLog
  /\ pc = call.fn

NextChain ==
  \/ OpenReadFirstHeader
  \/ OpenSkipTopLevel
  \/ OpenEnterSegment
  \/ OpenReadChild
  \/ OpenChildSeekHead
  \/ SeektableParseMaster
  \/ SeektableReturns
  \/ SeektableFollowsChain
  \/ OpenFromSeektable
  \/ GetReadFirstHeader
  \/ GetSkipTopLevel
  \/ GetEnterSegment
  \/ GetSegmentDone
  \/ GetReadChild
  \/ GetChildSeekHead
  \/ GetFromSeektable
  \/ GetChildFound
  \/ GetChildSkip

SpecChain == InitChain /\ [][NextChain]_vars

-----------------------------------------------------------------------------
(* Reference definitions the properties are stated with.                   *)

\* The count of leading zero bits of a byte.
LeadingZeros(b) ==
  CASE b >= 128 -> 0 [] b >= 64 -> 1 [] b >= 32 -> 2 [] b >= 16 -> 3
    [] b >= 8 -> 4 [] b >= 4 -> 5 [] b >= 2 -> 6 [] b >= 1 -> 7 [] OTHER -> 8

\* The big-endian value of at most 4 bytes whose first is below 128.
BigEndianNat(bytes) ==
  LET n == Len(bytes) IN
  IF n = 0 THEN 0
  ELSE IF n = 1 THEN bytes[1]
  ELSE IF n = 2 THEN bytes[1] * 256 + bytes[2]
  ELSE IF n = 3 THEN bytes[1] * 65536 + bytes[2] * 256 + bytes[3]
  ELSE bytes[1] * 16777216 + bytes[2] * 65536 + bytes[3] * 256 + bytes[4]

\* At most 8 bytes, zero-extended on the left to the 8 digits of a u64.
ZeroExtend(bytes) ==
  [i \in U64Digits |->
     IF i <= 8 - Len(bytes) THEN 0 ELSE bytes[i - (8 - Len(bytes))]]

\* At most 8 bytes as a two's complement number, sign-extended on the left
\* to the 8 digits of an i64 bit pattern: the sign is bit 7 of the first byte.
SignExtend(bytes) ==
  [i \in U64Digits |->
     IF i <= 8 - Len(bytes)
     THEN IF Len(bytes) > 0 /\ bytes[1] >= 128 THEN 255 ELSE 0
     ELSE bytes[i - (8 - Len(bytes))]]

\* The header that starts after the first p bytes of f, read off the bytes:
\* the widths of its ID and of its size field (one or two bytes), and the
\* value of the size field without its marker bit.
HeaderAt(f, p) ==
  LET idw == LeadingZeros(f[p + 1]) + 1
      sw == LeadingZeros(f[p + idw + 1]) + 1
  IN  [idw |-> idw, sw |-> sw,
       body |-> IF sw = 1 THEN f[p + idw + 1] - 128
                ELSE (f[p + idw + 1] - 64) * 256 + f[p + idw + 2]]

\* The classifier sets by the kind of value each stands for.
Classifiers ==
  [Master |-> IDS_MASTER, Int |-> IDS_INT, UInt |-> IDS_UINT,
   String |-> IDS_STRING, UTF8 |-> IDS_UTF8, Binary |-> IDS_BINARY,
   Float |-> IDS_FLOAT]

\* The kinds an ID is given by some test of parse_body, whatever the order
\* of the tests.
KindsOf(id) ==
  {k \in DOMAIN Classifiers : id \in Classifiers[k]}
  \cup (IF id = \H4461 THEN {"Date"} ELSE {})

\* The total size of the first n of the elements es.
SizesBefore(es, n) ==
  LET acc[i \in 0..n] == IF i = 0 THEN 0 ELSE acc[i - 1] + U64Nat(es[i].size)
  IN  acc[n]

\* In the element e parsed from the bytes of f after the first p, every
\* element whose ID no classifier knows is a Binary value that holds the
\* bytes of its body.
RECURSIVE UnknownAreBinary(_, _, _)
UnknownAreBinary(f, e, p) ==
  LET h == HeaderAt(f, p)
      b == p + h.idw + h.sw
  IN  IF e.val.kind = "Master"
      THEN \A k \in 1..Len(e.val.v) :
             UnknownAreBinary(f, e.val.v[k], b + SizesBefore(e.val.v, k - 1))
      ELSE KindsOf(e.id) = {} =>
             /\ e.val.kind = "Binary"
             /\ e.val.v = SubSeq(f, b + 1, b + h.body)

\* A layout of well-formed items that are read one after the other.
PlainLayout(l) ==
  /\ l.delta = 0
  /\ \A i \in 1..Len(l.items) : l.items[i].kind \notin {"SeekHead", "BadInfo"}

HasOneBit(f) == \E i \in 1..Len(f) : f[i] # 0

Returned(fn) == pc = "returned" /\ call.fn = fn

\* The call ended in a panic instead of returning a value.
Panicked(result) == ~result.ok /\ result.panic

\* The element ID of an item of a layout.
ItemId(item) ==
  CASE item.kind = "SeekHead" -> ids.SEEKHEAD
    [] item.kind = "Tracks" -> ids.TRACKS
    [] item.kind = "Void" -> ids.VOID
    [] item.kind = "Unknown" -> \H81
    [] OTHER -> ids.INFO

\* What a well-formed section item of a layout says.
ItemValue(item) ==
  CASE item.kind \in {"InfoA", "InfoU"} -> [Info_new EXCEPT !.title = Some(<<65>>)]
    [] item.kind = "InfoB" -> [Info_new EXCEPT !.title = Some(<<66>>)]
    [] item.kind = "Tracks" -> <<[Track_new EXCEPT !.number = U64(1)]>>
    [] OTHER -> "none"

FirstSeekHead(items) ==
  CHOOSE i \in SeekHeadsOf(items) : \A j \in SeekHeadsOf(items) : i <= j

\* The entries of a SeekHead put into a table from IDs to target items, a
\* later entry for an ID replacing an earlier one.
Listed(table, entries) ==
  LET acc[k \in 0..Len(entries)] ==
        IF k = 0 THEN table
        ELSE MapInsert(acc[k - 1], entries[k].id, entries[k].target)
  IN  acc[Len(entries)]

\* The chain of SeekHeads that starts from SeekHead `first` of the items:
\* the SeekHeads on it in order, the table they list together, and how the
\* chain ends: "done" at a SeekHead that lists no SeekHead, "cycle" at one
\* that lists a SeekHead already on the chain, "broken" at one that lists
\* an item that is no SeekHead.
Chain(items, first) ==
  LET Step(c) ==
        IF c.end # "open" THEN c
        ELSE IF ids.SEEKHEAD \notin DOMAIN c.table THEN [c EXCEPT !.end = "done"]
        ELSE IF items[c.table[ids.SEEKHEAD]].kind # "SeekHead"
             THEN [c EXCEPT !.end = "broken"]
        ELSE IF \E k \in 1..Len(c.heads) : c.heads[k] = c.table[ids.SEEKHEAD]
             THEN [c EXCEPT !.end = "cycle"]
        ELSE [heads |-> Append(c.heads, c.table[ids.SEEKHEAD]),
              table |-> Listed(MapRemove(c.table, ids.SEEKHEAD),
                               items[c.table[ids.SEEKHEAD]].entries),
              end |-> "open"]
      acc[k \in 0..Len(items)] ==
        IF k = 0
        THEN [heads |-> <<first>>,
              table |-> Listed([x \in {} |-> 0], items[first].entries),
              end |-> "open"]
        ELSE Step(acc[k - 1])
  IN  acc[Len(items)]

\* The stream position of item i of the layout.
ItemAt(items, i) == U64Add(segment_start, U64(Offset(items, i))).w

\* A source with a SeekHead in its Segment is being opened.
OpeningSeekHeads ==
  /\ call = [fn |-> "open", run |-> 1]
  /\ SeekHeadsOf(layout.items) # {}

\* The sections of a Matroska value that the items before item n say, a
\* later item replacing an earlier one.
Sequential(items, n) ==
  LET acc[k \in 0..(n - 1)] ==
        IF k = 0 THEN Matroska_new
        ELSE IF items[k].kind \in {"InfoA", "InfoB", "InfoU", "Tracks"}
             THEN Section_assign(acc[k - 1], ItemId(items[k]), ItemValue(items[k]))
             ELSE acc[k - 1]
  IN  acc[n - 1]

\* The Matroska value of a layout whose first SeekHead starts a chain that
\* ends "done": the sections before that SeekHead, each replaced by the
\* item the table lists for it.
FromTable(items) ==
  LET first == FirstSeekHead(items)
      table == Chain(items, first).table
      acc[k \in 0..2] ==
        IF k = 0 THEN Sequential(items, first)
        ELSE IF SectionIds[k] \in DOMAIN table
             THEN Section_assign(acc[k - 1], SectionIds[k],
                                 ItemValue(items[table[SectionIds[k]]]))
             ELSE acc[k - 1]
  IN  acc[2]

\* The sections the table of the chain lists, in the order open seeks them.
Sought(items) ==
  LET table == Chain(items, FirstSeekHead(items)).table
      at(id) == IF id \in DOMAIN table
                THEN <<Logged("section", id, ItemAt(items, table[id]))>>
                ELSE <<>>
  IN  at(ids.INFO) \o at(ids.TRACKS)

-----------------------------------------------------------------------------
\* The byte index at which child i of the children starts, the first child
\* starting at 0: the sum of the total sizes of the children before it.
ChildStart(children, i) ==
  LET acc[k \in 1..(Len(children) + 1)] ==
        IF k = 1 THEN 0 ELSE acc[k - 1] + U64Nat(children[k - 1].size)
  IN  acc[i]

(* C1: whenever parse_master(r, size) returns successfully the total sizes *)
(* of the returned children sum to exactly size and the children are the   *)
(* elements of the byte stream in stream order, each starting where the    *)
(* one before it ends; for size = 0 the list is empty and nothing is read. *)
C1_ChildrenFillSize ==
  (Returned("parse_master") /\ outcome.ok) =>
    /\ \A i \in 1..Len(outcome.val) : U64IsSmall(outcome.val[i].size)
    /\ U64(ChildStart(outcome.val, Len(outcome.val) + 1)) = call.size
    /\ \A i \in 1..Len(outcome.val) :
         \E h \in {read_element_id_size(file, ChildStart(outcome.val, i))} :
           /\ h.ok
           /\ h.id = outcome.val[i].id
           /\ U64Add(U64(h.len), h.size).w = outcome.val[i].size
    /\ outcome.pos = U64Nat(call.size)
    /\ call.size = U64Zero => outcome.val = <<>> /\ outcome.pos = 0

C1_Witness ==
  /\ Returned("parse_master") /\ outcome.ok
  /\ call.size = U64(Len(file))
  /\ Len(outcome.val) = 3
  /\ outcome.val[1].id = ids.TITLE
  /\ outcome.val[2].val.kind = "Master" /\ Len(outcome.val[2].val.v) = 1
  /\ outcome.val[3].id = ids.TRACKNUMBER

\* A child of this parse_master call is parsed and its total size is above
\* the size left of the master at that point.
RECURSIVE ChildOverruns(_, _, _)
ChildOverruns(f, pos, left) ==
  /\ left # U64Zero
  /\ \E e \in {parse(f, pos)} :
       /\ e.ok
       /\ \/ U64Lt(left, e.val.size)
          \/ /\ ~U64Lt(left, e.val.size)
             /\ ChildOverruns(f, e.pos, U64Sub(left, e.val.size).w)

(* C2: when a child parsed inside a master has a total size above the      *)
(* master's remaining size budget, parse_master returns the error value    *)
(* CorruptFile to its caller.                                              *)
C2_OverrunIsCorruptFile ==
  (Returned("parse_master") /\ ChildOverruns(file, 0, call.size)) =>
    outcome = Err("CorruptFile")

(* C3: Matroska::open ends by returning a value or a MatroskaError value:  *)
(* no input reaches a panic or a failed assertion.                         *)
C3_OpenNeverPanics ==
  Returned("open") => ~Panicked(outcome)

\* The first SeekHead of the Segment lists a second SeekHead and the
\* second lists the first.
MutualSeekHeads ==
  /\ OpeningSeekHeads
  /\ \E c \in {Chain(layout.items, FirstSeekHead(layout.items))} :
       /\ c.end = "cycle"
       /\ Len(c.heads) = 2
       /\ c.table[ids.SEEKHEAD] = c.heads[1]

\* Nothing before the first SeekHead of the Segment stops the scan.
ReachesSeekHead ==
  \A i \in 1..(FirstSeekHead(layout.items) - 1) :
    layout.items[i].kind # "BadInfo"

(* C4: when a SeekHead lists a second SeekHead and the second lists the    *)
(* first, Seektable::parse terminates and returns the error CorruptFile:   *)
(* it does not follow the chain forever.                                   *)
C4_CycleReturnsCorruptFile ==
  (MutualSeekHeads /\ ReachesSeekHead) ~>
    (pc = "returned" /\ outcome = Err("CorruptFile"))

\* The chain of SeekHeads that starts at the first SeekHead of the Segment.
TheChain == Chain(layout.items, FirstSeekHead(layout.items))

\* The stream position of the body of item i: a SeekHead has a four-byte
\* ID and a one-byte size.
BodyAt(items, i) == U64Add(ItemAt(items, i), U64(5)).w

(* C5: for an acyclic chain of SeekHeads the table Seektable::parse        *)
(* returns holds the merged Seek entries of every SeekHead of the chain,   *)
(* a later entry for an ID replacing an earlier one; each SeekHead of the  *)
(* chain is read at segment_start + its listed offset; and the table has   *)
(* no entry for the SeekHead ID.                                           *)
C5_ChainIsMerged ==
  (OpeningSeekHeads /\ pc = "sections") =>
    \E c \in {TheChain} :
      /\ c.end = "done"
      /\ DOMAIN seektable.seek = {U32(id) : id \in DOMAIN c.table}
      /\ \A id \in DOMAIN c.table :
           seektable.seek[U32(id)] = U64(Offset(layout.items, c.table[id]))
      /\ U32(ids.SEEKHEAD) \notin DOMAIN seektable.seek
      /\ log.chain = {BodyAt(layout.items, c.heads[k]) : k \in 1..Len(c.heads)}

C5_Witness ==
  /\ OpeningSeekHeads /\ pc = "sections"
  /\ Len(TheChain.heads) = 2
  /\ Cardinality(log.chain) = 2
  /\ DOMAIN seektable.seek = {U32(ids.INFO), U32(ids.TRACKS)}

(* C6: when Matroska::open reads a SeekHead as a child of the Segment no   *)
(* child after that SeekHead is read sequentially, and the value open      *)
(* returns is made of the sections assigned before the SeekHead, each      *)
(* replaced by the section the chained seek table lists for it, parsed at  *)
(* segment_start + its position; nothing else is sought.                   *)
C6_SeekHeadWins ==
  OpeningSeekHeads =>
    /\ \A k \in 1..Len(log.scanned) :
         /\ k <= FirstSeekHead(layout.items)
         /\ log.scanned[k].at = ItemAt(layout.items, k)
    /\ (pc = "returned" /\ outcome.ok) =>
         /\ Len(log.scanned) = FirstSeekHead(layout.items)
         /\ outcome.val = FromTable(layout.items)
         /\ log.sought = Sought(layout.items)

C6_Witness ==
  /\ OpeningSeekHeads /\ pc = "returned" /\ outcome.ok
  /\ FirstSeekHead(layout.items) = 2
  /\ Len(layout.items) = 3
  /\ layout.items[1].kind = "InfoA"
  /\ layout.items[3].kind = "Tracks"
  /\ DOMAIN seektable.seek = {U32(ids.TRACKS)}
  /\ outcome.val.info.title = Some(<<65>>)
  /\ outcome.val.tracks # <<>>

\* The last item of the Segment that has the given ID.
LastOf(items, id) ==
  CHOOSE i \in 1..Len(items) :
    /\ ItemId(items[i]) = id
    /\ \A j \in 1..Len(items) : ItemId(items[j]) = id => j <= i

\* The chained seek table lists every section that is in the Segment, at
\* its last occurrence.
ListsEverySection ==
  \E c \in {TheChain} :
    /\ c.end = "done"
    /\ \A i \in 1..Len(layout.items) :
         IsSectionId(ItemId(layout.items[i])) =>
           /\ ItemId(layout.items[i]) \in DOMAIN c.table
           /\ c.table[ItemId(layout.items[i])] =
                LastOf(layout.items, ItemId(layout.items[i]))

\* Matroska::open has returned on the source with the SeekHeads left out,
\* after it returned a value on the source with them.
TwinReturned == Returned("open") /\ call.run = 2

-----------------------------------------------------------------------------
(* C8 (as amended): read_element_id decodes an ID whose width w = leading  *)
(* zero bits of the first byte + 1 is 1..4 to the big-endian value of its  *)
(* w bytes, marker bit kept, and returns w as the length; a width above 4  *)
(* gives InvalidID provided a one bit is read before the input ends.       *)
C8_IdDecodedOrInvalid ==
  (Returned("read_element_id") /\ Len(file) >= 1) =>
    LET w == LeadingZeros(file[1]) + 1 IN
    /\ (w <= 4 /\ Len(file) >= w) =>
         /\ outcome.ok
         /\ outcome.id = BigEndianNat(SubSeq(file, 1, w))
         /\ outcome.len = w
    /\ (w > 4 /\ HasOneBit(file)) => outcome = Err("InvalidID")

\* C8 as stated: every first byte with more than 3 leading zero bits, the
\* zero byte included, gives InvalidID.
C8_WideIdAlwaysInvalid ==
  (Returned("read_element_id") /\ Len(file) >= 1) =>
    (LeadingZeros(file[1]) + 1 > 4 => outcome = Err("InvalidID"))

C8_Witness ==
  /\ Returned("read_element_id")
  /\ file = <<\H1A, \HA5, \H00, \HA5>>
  /\ outcome.ok /\ outcome.len = 4 /\ outcome.id = \H1AA500A5

(* C9 (as amended): read_element_size decodes a size of width w in 1..8 to *)
(* the big-endian value of its 7w payload bits, marker bit stripped, and   *)
(* returns w as the length; a width above 8 (a zero first byte) gives      *)
(* InvalidSize provided a one bit is read before the input ends.           *)
C9_SizeDecodedOrInvalid ==
  (Returned("read_element_size") /\ Len(file) >= 1) =>
    LET w == LeadingZeros(file[1]) + 1
        payload == [i \in 1..w |->
                      IF i = 1 THEN file[1] - 2 ^ (8 - w) ELSE file[i]]
    IN
    /\ (w <= 8 /\ Len(file) >= w) =>
         /\ outcome.ok
         /\ outcome.size = ZeroExtend(payload)
         /\ outcome.len = w
    /\ (w > 8 /\ HasOneBit(file)) => outcome = Err("InvalidSize")

\* C9 as stated: a zero first byte always gives InvalidSize.
C9_WideSizeAlwaysInvalid ==
  (Returned("read_element_size") /\ Len(file) >= 1) =>
    (LeadingZeros(file[1]) + 1 > 8 => outcome = Err("InvalidSize"))

C9_Witness ==
  /\ Returned("read_element_size")
  /\ Len(file) = 8 /\ file[1] = \H01 /\ file[2] = \HA5 /\ file[8] = \HA5
  /\ outcome.ok /\ outcome.len = 8
  /\ outcome.size[1] = 0 /\ outcome.size[2] = \HA5

(* C10: for every body width w in 0..8 read_uint returns the zero-extended *)
(* big-endian value of the w body bytes, having consumed exactly them; for *)
(* w = 0 it returns 0 and consumes nothing, even from an empty source.     *)
C10_UintBigEndian ==
  (Returned("read_uint") /\ U64Le(call.size, U64(8))) =>
    LET w == U64Nat(call.size) IN
    Len(file) >= w =>
      /\ outcome.ok
      /\ outcome.val = ZeroExtend(SubSeq(file, 1, w))
      /\ outcome.pos = w

C10_Witness ==
  /\ Returned("read_uint") /\ call.size = U64(8)
  /\ file = <<\H81, \H00, \HA5, \HA5, \H00, \H00, \H00, \HA5>>
  /\ outcome.ok /\ outcome.val = file

(* C11: for every body width w in 1..8 read_int returns the big-endian     *)
(* value of the w body bytes sign-extended from bit 8w-1 to 64 bits,       *)
(* having consumed exactly them; a zero-length body yields 0.              *)
C11_IntSignExtended ==
  (Returned("read_int") /\ U64Le(call.size, U64(8))) =>
    LET w == U64Nat(call.size) IN
    Len(file) >= w =>
      /\ outcome.ok
      /\ outcome.val = SignExtend(SubSeq(file, 1, w))
      /\ outcome.pos = w
      /\ w = 0 => outcome.val = U64Zero

C11_Witness ==
  /\ Returned("read_int") /\ call.size = U64(3)
  /\ outcome.ok
  /\ SubSeq(file, 1, 3) = <<\HFF, \HA5, \H00>>
  /\ outcome.val = <<255, 255, 255, 255, 255, \HFF, \HA5, \H00>>

(* C17: read_date accepts only an 8-byte body, which it returns as the     *)
(* instant 2001-01-01T00:00:00 UTC plus the body read as a signed count    *)
(* of nanoseconds; every other length fails with InvalidDate.              *)
C17_DateIsEightBytes ==
  Returned("read_date") =>
    /\ call.size # U64(8) => outcome = Err("InvalidDate")
    /\ (call.size = U64(8) /\ Len(file) >= 8) =>
         /\ outcome.ok
         /\ outcome.val.ymd = <<2001, 1, 1>> /\ outcome.val.hms = <<0, 0, 0>>
         /\ outcome.val.nanoseconds = SignExtend(SubSeq(file, 1, 8))
         /\ outcome.pos = 8
    /\ (call.size = U64(8) /\ Len(file) < 8) => outcome = Err("Io")

C17_Witness ==
  /\ Returned("read_date") /\ call.size = U64(8)
  /\ outcome.ok
  /\ file[1] = \HFF
  /\ outcome.val.nanoseconds = <<\HFF, \HA5, 0, \HA5, 0, 0, \HA5, \HA5>>

(* C18: every element Element::parse returns has as its size the length    *)
(* of its header (ID and size field) plus the size of its body, and parse  *)
(* has consumed exactly that many bytes of the source.                     *)
C18_SizeIsHeaderPlusBody ==
  (Returned("parse") /\ outcome.ok) =>
    \E h \in {HeaderAt(file, 0)} :
      /\ outcome.val.size = U64(h.idw + h.sw + h.body)
      /\ outcome.pos = h.idw + h.sw + h.body

C18_Witness ==
  /\ Returned("parse") /\ outcome.ok
  /\ file = ElementBytes(ids.TRACKENTRY,
              <<\H81, \H40, \H01, 9>> \o ElementBytes(ids.DATEUTC, <<\HFF, 0, 0, 0, 0, 0, 0, 1>>))
            \o <<\HEC>>
  /\ outcome.val.size = U64(17)
  /\ outcome.pos = 17

(* C19: no ID is in two of the seven classifier sets and none of them has  *)
(* the ID 0x4461 of a date, so each ID passes at most one of the tests of  *)
(* parse_body and the kind parse gives an element is the kind of the one   *)
(* set its ID is in, in whatever order the sets are tested.                *)
C19_ClassifiersDisjoint ==
  /\ \A k \in DOMAIN Classifiers :
       /\ \H4461 \notin Classifiers[k]
       /\ \A id \in Classifiers[k] : KindsOf(id) = {k}
  /\ (Returned("parse") /\ outcome.ok) =>
       KindsOf(outcome.val.id) \subseteq {outcome.val.val.kind}

C19_Witness ==
  /\ Returned("parse") /\ outcome.ok
  /\ outcome.val.id = \H4461
  /\ outcome.val.val.kind = "Date"
  /\ KindsOf(outcome.val.id) = {"Date"}

(* C12: an element whose ID is in no classifier set and is not 0x4461 is   *)
(* parsed, at every level of nesting, as a Binary value holding the bytes  *)
(* of its body; Element::parse succeeds on every whole element that has    *)
(* such elements in it, and Matroska::open succeeds on a well-formed       *)
(* Segment with such children, in the Segment or in a section, and returns *)
(* what the sections alone say.                                            *)
C12_UnknownIsBinary ==
  /\ Returned("parse") =>
       /\ call.whole => outcome.ok
       /\ outcome.ok => UnknownAreBinary(file, outcome.val, 0)
  /\ (Returned("open") /\ PlainLayout(layout)) =>
       /\ outcome.ok
       /\ outcome.val = Sequential(layout.items, Len(layout.items) + 1)

C12_Witness ==
  /\ Returned("parse") /\ outcome.ok
  /\ file = ElementBytes(ids.TRACKENTRY,
              ElementBytes(ids.VIDEO, ElementBytes(\H81, <<7>>))
              \o ElementBytes(\H1F43B676, <<7, 8>>))
  /\ outcome.val.val.v[1].val.v[1].val = [kind |-> "Binary", v |-> <<7>>]
  /\ outcome.val.val.v[2].val = [kind |-> "Binary", v |-> <<7, 8>>]

Section_of(m, id) ==
  CASE id = ids.INFO -> m.info
    [] id = ids.TRACKS -> m.tracks
    [] id = ids.ATTACHMENTS -> m.attachments
    [] id = ids.CHAPTERS -> m.chapters
    [] id = ids.TAGS -> m.tags

\* The running call of Matroska::open has parsed an element with the given
\* ID, as a child it has read or from the seek table.
Assigned(id) ==
  \/ \E k \in 1..Len(log.scanned) : log.scanned[k].id = id
  \/ \E k \in 1..Len(log.sought) : log.sought[k].id = id

\* get::<P> has returned a value and Matroska::open, called next on the
\* same source, has returned one too.
GetThenOpenReturned ==
  /\ Returned("open") /\ call.first = "get" /\ call.run = 2
  /\ prev.ok /\ outcome.ok

\* get::<P> and Matroska::open say the same of section P.
GetAgreesWithOpen ==
  /\ prev.val = None <=> ~Assigned(call.id)
  /\ prev.val # None => prev.val = Some(Section_of(outcome.val, call.id))

\* At most one child of the Segment has the ID P, and if it comes after
\* the first SeekHead the chained seek table lists the ID.
OnceAndListed(items, id) ==
  /\ Cardinality({i \in 1..Len(items) : ItemId(items[i]) = id}) <= 1
  /\ SeekHeadsOf(items) # {} =>
       \A i \in 1..Len(items) :
         (ItemId(items[i]) = id /\ i > FirstSeekHead(items)) =>
           id \in DOMAIN Chain(items, FirstSeekHead(items)).table

LastChild(items, kind) ==
  LET of == {i \in 1..Len(items) : items[i].kind = kind}
  IN  IF of = {} THEN 0 ELSE CHOOSE i \in of : \A j \in of : j <= i

\* The language a record shows: that of a ChapterDisplay is no Option.
ShownLanguage(record, language) ==
  IF record = "ChapterDisplay" THEN language
  ELSE IF language = None THEN "none" ELSE language[1]

(* C13: a Track, a ChapterDisplay or a SimpleTag built from children among *)
(* which there is an IETF language has the value of the (last) IETF child  *)
(* as its language, wherever the ISO-639 children and the other children   *)
(* are; with ISO-639 children only it has the (last) ISO-639 value; with   *)
(* neither it has its initial language.                                    *)
C13_IETFWins ==
  Returned("build") =>
    /\ outcome.ok
    /\ \E ietf \in {LastChild(layout.items, "IETF")} :
       \E iso \in {LastChild(layout.items, "ISO")} :
         ShownLanguage(call.record, outcome.val.language) =
           IF ietf # 0 THEN [form |-> "IETF", s |-> layout.items[ietf].s]
           ELSE IF iso # 0 THEN [form |-> "ISO639", s |-> layout.items[iso].s]
           ELSE IF call.record = "ChapterDisplay"
                THEN [form |-> "ISO639", s |-> <<>>]
                ELSE "none"

C13_Witness ==
  /\ Returned("build") /\ call.record = "SimpleTag"
  /\ layout.items = <<[kind |-> "IETF", s |-> <<101>>],
                      [kind |-> "Other", s |-> <<65>>],
                      [kind |-> "ISO", s |-> <<102>>]>>
  /\ outcome.ok
  /\ outcome.val.language = Some([form |-> "IETF", s |-> <<101>>])
  /\ outcome.val.name = <<65>>

(* C14: the duration Info::parse returns is that of the last Duration      *)
(* child scaled by the last TimecodeScale child, wherever the two are in   *)
(* the body, or by 1,000,000 when there is no TimecodeScale child, in      *)
(* whole nanoseconds; it is None when there is no Duration child.          *)
C14_DurationAfterFold ==
  Returned("Info::parse") =>
    /\ outcome.ok
    /\ \E d \in {LastChild(layout.items, "Duration")} :
       \E sc \in {LastChild(layout.items, "Scale")} :
       \E scale \in {IF sc = 0 THEN 1000000 ELSE layout.items[sc].scale} :
         outcome.val.duration =
           IF d = 0 THEN None
           ELSE Some(U64((layout.items[d].num * scale) \div layout.items[d].den))

C14_Witness ==
  /\ Returned("Info::parse") /\ outcome.ok
  /\ Len(layout.items) = 3
  /\ layout.items[1].kind = "Scale" /\ layout.items[1].scale = 2000000
  /\ layout.items[2].kind = "Duration" /\ layout.items[2].num = 1015
  /\ layout.items[3].kind = "Scale" /\ layout.items[3].scale = 1000000
  /\ outcome.val.duration = Some(U64(1015000000))

\* offset + position is at most 2^64 - 1: the position is at most what is
\* left of the range above the offset.
SumFits(offset, position) == U64Le(position, U64Sub(U64Max, offset).w)

\* w is offset + position, not wrapped.
IsSum(w, offset, position) ==
  /\ U64Le(offset, w)
  /\ U64Sub(w, offset).w = position

\* Seektable::get has returned what the claim says of a table without the
\* ID and of a sum that fits.
SeektableGetFits ==
  \E key \in {U32(call.id)} :
    /\ key \notin DOMAIN seektable.seek => outcome = [ok |-> TRUE, val |-> None]
    /\ (key \in DOMAIN seektable.seek
         /\ SumFits(seektable.offset, seektable.seek[key])) =>
         /\ outcome.ok
         /\ outcome.val # None
         /\ IsSum(outcome.val[1], seektable.offset, seektable.seek[key])

\* The ID is listed and segment_start + position is 2^64 or more.
SeektableGetOverflows ==
  /\ U32(call.id) \in DOMAIN seektable.seek
  /\ ~SumFits(seektable.offset, seektable.seek[U32(call.id)])

(* C20 as stated: Seektable::get returns None for an ID the table does not *)
(* list, Some(segment_start + position) when the sum fits in 64 bits and   *)
(* the error CorruptFile when it does not.                                 *)
C20_OverflowIsCorruptFile ==
  Returned("Seektable::get") =>
    /\ SeektableGetFits
    /\ SeektableGetOverflows => outcome = Err("CorruptFile")

(* C20, amended: Seektable::get returns None for an ID the table does not  *)
(* list, Some(segment_start + position) when the sum fits in 64 bits and   *)
(* the error InvalidSeekHead when it does not: never a wrapped offset.     *)
C20_OverflowIsInvalidSeekHead ==
  Returned("Seektable::get") =>
    /\ SeektableGetFits
    /\ SeektableGetOverflows => outcome = Err("InvalidSeekHead")

C20_Witness ==
  /\ Returned("Seektable::get")
  /\ call.id = ids.TRACKS
  /\ seektable.offset = U64(14)
  /\ DOMAIN seektable.seek = {U32(ids.INFO), U32(ids.TRACKS)}
  /\ seektable.seek[U32(ids.TRACKS)] = <<255, 255, 255, 255, 255, 255, 255, 242>>
  /\ seektable.seek[U32(ids.INFO)] = U64(14)
  /\ outcome = Err("InvalidSeekHead")

\* The child whose header is in hdr takes more than what is left of the
\* Segment: its header length plus its body size is above size_0.
BudgetExceeded ==
  /\ pc \in {"child", "get_child", "get_found"}
  /\ \E total \in {U64Add(U64(hdr.len), hdr.size_1)} :
       total.carry = 1 \/ U64Lt(size_0, total.w)

(* C21 as stated: when a child of the Segment takes more than what is left *)
(* of the Segment, Matroska::open and get do not go on to the next child   *)
(* with a wrapped size_0 and do not abort on the subtraction: the call     *)
(* ends with an error value.                                               *)
C21_BudgetUnderflowIsError ==
  [][BudgetExceeded =>
       /\ pc' \notin {"segment", "get_segment"}
       /\ outcome' # Panic("attempt to subtract with overflow")]_vars

\* a + b modulo 2^64.
Plus(a, b) ==
  With(a, LAMBDA x : With(b, LAMBDA y : U64Add(x, y).w))

\* The stream position after the first k of the elements es, each taken
\* with the size it declares.
SkipEnd(es, k) ==
  LET acc[j \in 0..k] ==
        IF j = 0 THEN U64Zero
        ELSE Plus(Plus(acc[j - 1], U64(es[j].len)), es[j].size)
  IN  acc[k]

\* The stream position after the header of element k of es.
HeaderEnd(es, k) == Plus(SkipEnd(es, k - 1), U64(es[k].len))

\* The top-level elements of a source of skipped elements, its Segment
\* included.
SkipTops ==
  IF layout.segment = "none" THEN layout.items
  ELSE Append(layout.items, SegmentElement(layout))

\* The header last read is that of element k of es, which starts at the
\* given position plus the declared sizes of the elements before it.
AtHeaderOf(es, k, start, id, size, len) ==
  /\ id = es[k].id
  /\ size = es[k].size
  /\ len = es[k].len
  /\ cursor = Plus(start, HeaderEnd(es, k))

(* C22: every skip of Matroska::open and get moves the stream position     *)
(* forward by the declared body size of the element skipped, a size below  *)
(* 2^56 whose conversion to i64 is not negative: a header is read where    *)
(* the element before it ends by its declared size, among the top-level    *)
(* elements and among the children of the Segment; and a call that returns *)
(* before it has read a Segment header returns the error of a read that    *)
(* failed at such a position.                                              *)
C22_SkipsByBodySize ==
  \E tops \in {SkipTops} :
    /\ pc \in {"top", "get_top"} =>
         /\ ~IsNegativeI64(size_0) /\ U64Le(size_0, AllOnes56)
         /\ \E k \in 1..Len(tops) :
              AtHeaderOf(tops, k, U64Zero, id_0, size_0, tops[k].len)
    /\ pc \in {"child", "get_child"} =>
         /\ ~IsNegativeI64(hdr.size_1) /\ U64Le(hdr.size_1, AllOnes56)
         /\ \E k \in 1..Len(layout.children) :
              AtHeaderOf(layout.children, k, segment_start,
                         hdr.id_1, hdr.size_1, hdr.len)
    /\ pc \in {"segment", "get_segment"} =>
         \E k \in 0..Len(layout.children) :
           cursor = Plus(segment_start, SkipEnd(layout.children, k))
    /\ (pc = "returned" /\ id_0 # ids.SEGMENT) =>
         /\ outcome \in {Err("Io"), Err("InvalidID"), Err("InvalidSize")}
         /\ \E k \in 0..Len(tops) : cursor = SkipEnd(tops, k)
    /\ (pc = "returned" /\ id_0 = ids.SEGMENT) =>
         \E k \in 0..Len(layout.children) :
           cursor = Plus(segment_start, SkipEnd(layout.children, k))

C22_Witness ==
  /\ pc = "returned" /\ call.fn = "get"
  /\ Len(layout.items) = 2 /\ layout.segment = "exact"
  /\ layout.items[1].bytes = <<\HEC, \H81, 0>>
  /\ layout.items[2].size = AllOnes56
  /\ id_0 = \H81 /\ size_0 = AllOnes56
  /\ cursor = <<1, 0, 0, 0, 0, 0, 0, 11>>
  /\ outcome = Err("Io")

\* Info::parse has returned an Info built from children among which there
\* is a Duration.
DurationReturned ==
  /\ Returned("Info::parse") /\ outcome.ok
  /\ LastChild(layout.items, "Duration") # 0

\* The product of the last Duration child and the scale in force, as the
\* fraction num / den of whole numbers.
DurationProduct ==
  LET d == LastChild(layout.items, "Duration")
      sc == LastChild(layout.items, "Scale")
      scale == IF sc = 0 THEN 1000000 ELSE layout.items[sc].scale
  IN  [num |-> layout.items[d].num * scale, den |-> layout.items[d].den]

(* C23 as stated: when there is a Duration child, the duration Info::parse *)
(* returns is the product of the raw duration and the timecode scale       *)
(* rounded to the nearest whole nanosecond: 1.5 gives 2 ns.                *)
C23_DurationRounded ==
  DurationReturned =>
    \E p \in {DurationProduct} :
      outcome.val.duration = Some(U64((2 * p.num + p.den) \div (2 * p.den)))

(* C23, amended: when there is a Duration child, the duration Info::parse  *)
(* returns is the product of the raw duration and the timecode scale       *)
(* truncated toward zero to a whole nanosecond: 1.5 gives 1 ns.            *)
C23_DurationTruncated ==
  DurationReturned =>
    \E p \in {DurationProduct} :
      outcome.val.duration = Some(U64(p.num \div p.den))

C23_Witness ==
  /\ DurationReturned
  /\ Len(layout.items) = 2
  /\ layout.items[1].kind = "Scale" /\ layout.items[1].scale = 1
  /\ layout.items[2].kind = "Duration"
  /\ layout.items[2].num = 3 /\ layout.items[2].den = 2
  /\ outcome.val.duration = Some(U64(1))

\* read_int or read_uint has returned from a call with a declared width
\* above 8.
WideIntReturned ==
  /\ Returned("read_int") \/ Returned("read_uint")
  /\ U64Lt(U64(8), call.size)

(* C24 as stated: read_int and read_uint reject a declared width above 8   *)
(* with the error InvalidInt, whatever the source holds: the body is not   *)
(* read.                                                                   *)
C24_WideIntIsInvalidInt ==
  WideIntReturned => outcome = Err("InvalidInt")

(* C24, amended: read_int and read_uint reject a declared width above 8    *)
(* with the error InvalidUint, whatever the source holds: the body is not  *)
(* read (a source shorter than the width gives no Io error).               *)
C24_WideIntIsInvalidUint ==
  WideIntReturned => outcome = Err("InvalidUint")

C24_Witness ==
  /\ Returned("read_int")
  /\ call.size = <<0, 0, 0, 1, 0, 0, 0, 1>>
  /\ file = <<\H81, \HA5>>
  /\ outcome = Err("InvalidUint")

\* The source ends in the middle of a VINT of a width up to max: it holds
\* at least one byte and either no one bit at all, or a first byte that
\* tells a width up to max and fewer bytes than that width.
EndsInsideVint(max) ==
  /\ file # <<>>
  /\ \/ \A i \in 1..Len(file) : file[i] = 0
     \/ /\ file[1] # 0
        /\ LeadingZeros(file[1]) + 1 <= max
        /\ Len(file) < LeadingZeros(file[1]) + 1

(* C25 as stated: on a source that ends in the middle of an element ID,    *)
(* read_element_id returns the error InvalidID; on a source that ends in   *)
(* the middle of an element size, read_element_size returns the error      *)
(* InvalidSize.                                                            *)
C25_CutVintIsInvalid ==
  /\ (Returned("read_element_id") /\ EndsInsideVint(4)) =>
       outcome = Err("InvalidID")
  /\ (Returned("read_element_size") /\ EndsInsideVint(8)) =>
       outcome = Err("InvalidSize")

(* C25, amended: on a source that ends in the middle of an element ID of a *)
(* width up to 4, or of an element size of a width up to 8, or before the  *)
(* one bit that tells the width, the error is Io.                          *)
C25_CutVintIsIo ==
  /\ (Returned("read_element_id") /\ EndsInsideVint(4)) => outcome = Err("Io")
  /\ (Returned("read_element_size") /\ EndsInsideVint(8)) => outcome = Err("Io")

C25_Witness ==
  /\ Returned("read_element_size")
  /\ file = <<\H01, \HA5, \H00>>
  /\ EndsInsideVint(8)
  /\ outcome = Err("Io")

(* C26: read_float returns the error InvalidFloat for every declared width *)
(* other than 4 and 8, the width 0 included, whatever the source holds (no *)
(* byte of the body is read: a short source gives no Io error); with the   *)
(* width 4 or 8 it reads that many bytes, an 8-byte body being the bit     *)
(* pattern of the f64 returned, and fails with Io on a shorter source.     *)
C26_FloatIsFourOrEightBytes ==
  Returned("read_float") =>
    /\ call.size \notin {U64(4), U64(8)} => outcome = Err("InvalidFloat")
    /\ \A w \in {4, 8} :
         call.size = U64(w) =>
           IF Len(file) < w THEN outcome = Err("Io")
           ELSE /\ outcome.ok
                /\ outcome.pos = w
                /\ w = 8 => outcome.val = [i \in U64Digits |-> file[i]]

C26_Witness ==
  /\ Returned("read_float")
  /\ call.size = U64Zero
  /\ file = <<\H3F, 0, 0, 0>>
  /\ outcome = Err("InvalidFloat")

\* A child the builder has an arm for: its ID with the kind of value the arm
\* names.
Recognized(builder, item) == item \in Arms(builder)

RecognizedOf(builder, items) ==
  SampleElements(SelectSeq(items, LAMBDA item : Recognized(builder, item)))

BuildReturned == pc = "returned" /\ call.fn = "build_entry"

\* C27: a builder returns a record and no error; the record is the one it
\* builds from the children it has an arm for alone, so a child with another
\* ID, or with a value of another kind, changes no field; with no child it
\* has an arm for the record is the default record.
C27_StrangersChangeNothing ==
  BuildReturned =>
    /\ outcome.ok
    /\ outcome.val =
         Record_build(call.record, RecognizedOf(call.record, layout.items))
    /\ RecognizedOf(call.record, layout.items) = <<>> =>
         outcome.val = Default(call.record)

\* Audio built from a Channels child that holds 2 and a Channels child with
\* a Binary value: the record has 2 channels and nothing else set.
C27_Witness ==
  /\ BuildReturned
  /\ call.record = "Audio"
  /\ layout.items = <<<<ids.CHANNELS, "UInt">>, <<ids.CHANNELS, "Binary">>>>
  /\ outcome.val = [Audio_new EXCEPT !.channels = U64(2)]

\* The size of the element el is written with every payload bit set.
IsUnknownSize(el) ==
  LET vint == SubSeq(el.bytes, Len(IdBytes(el.id)) + 1, el.len)
      w == Len(vint)
  IN  /\ vint[1] = 2 ^ (9 - w) - 1
      /\ \A i \in 2..w : vint[i] = 255

\* Where the source ends, and where the Segment of the layout ends.
SourceEnd == U64(Len(file))

ParentEnd ==
  IF layout.segment = "exact"
  THEN Plus(segment_start, SegmentElement(layout).size)
  ELSE SourceEnd

\* The stream is where element k of es ends by the size it declares, or
\* past a header read there; es starts at the given position.
AtLiteralEnd(es, k, start) ==
  \/ cursor = Plus(start, SkipEnd(es, k))
  \/ k < Len(es) /\ cursor = Plus(start, HeaderEnd(es, k + 1))

(* C28: a size written with every payload bit set is not taken as the body *)
(* size 2^(7*width) - 1: unless the call has ended with an error, the      *)
(* stream is never put where such an element would end by that size, and   *)
(* no header is read there, among the top-level elements and among the     *)
(* children of the Segment, except where the element ends there because    *)
(* its parent does.                                                         *)
C28_UnknownSizeNotLiteral ==
  \E tops \in {SkipTops} :
    \/ pc = "returned" /\ ~outcome.ok
    \/ /\ pc \in {"top", "get_top"} =>
            \A k \in 1..Len(layout.items) :
              IsUnknownSize(tops[k]) /\ SkipEnd(tops, k) # SourceEnd =>
                ~AtLiteralEnd(tops, k, U64Zero)
       /\ pc \in {"segment", "get_segment", "child", "get_child"} =>
            \A k \in 1..Len(layout.children) :
              /\ IsUnknownSize(layout.children[k])
              /\ Plus(segment_start, SkipEnd(layout.children, k)) # ParentEnd
              => ~AtLiteralEnd(layout.children, k, segment_start)

\* get has left the SEEKHEAD arm without a section and is back at the head
\* of its loop: the child header last read is that of the SeekHead.
BackFromSeekHead ==
  /\ call.fn = "get"
  /\ pc = "get_segment"
  /\ hdr.id_1 = ids.SEEKHEAD

(* C29: when get has parsed a SeekHead child whose table, chained tables   *)
(* included, has no entry for P, the next child header is read where that  *)
(* SeekHead child ends: the stream position is the position of its header  *)
(* plus the header length and the body size by which size_0 is reduced.    *)
C29_ResumesAfterSeekHead ==
  BackFromSeekHead =>
    cursor = Plus(Plus(log.scanned[Len(log.scanned)].at, U64(hdr.len)),
                  hdr.size_1)

\* Seektable::parse has taken the position of a chained SeekHead from the
\* table and its sum with segment_start does not fit a u64.
ChainOffsetOverflows ==
  /\ pc = "chain"
  /\ U32(ids.SEEKHEAD) \in DOMAIN seektable.seek
  /\ U64Add(seektable.seek[U32(ids.SEEKHEAD)], segment_start).carry = 1

(* C30: when the position a seek table lists for a chained SeekHead plus   *)
(* segment_start does not fit 64 unsigned bits, Seektable::parse ends with *)
(* an error value, as Seektable::get does for a section: the call returns  *)
(* it, does not panic, and the stream is not moved.                        *)
C30_ChainOverflowIsError ==
  [][ChainOffsetOverflows =>
       /\ pc' = "returned"
       /\ ~outcome'.ok /\ ~outcome'.panic
       /\ cursor' = cursor]_vars

====
